---------------------------- MODULE Spec2Model ----------------------------
(***************************************************************************)
(* Slot-filling dialogue engine of the cleaning-quote voice receptionist.  *)
(*                                                                         *)
(* Three programs of the repository are modelled, each with its own        *)
(* specification over its own variables:                                   *)
(*   SpecDecoder  the postcode phonetic decoder of src/server.js           *)
(*                (extractUkPostcode), applied to bounded utterances;      *)
(*   SpecFirst    the first server of src/server.js (need_category ..      *)
(*                postcode_fallback, with the AI extraction step);         *)
(*   Spec         the /call/start and /call/input handlers of              *)
(*                src/unnamed/part_000 for one call identifier.            *)
(* Texts are TLA+ strings; a character of a text is SubSeq(s, i, i).       *)
(***************************************************************************)
EXTENDS Integers, Sequences, FiniteSets, TLC

\* ------------------------------------------------------------------------
\* JavaScript string primitives used by the handlers
\* ------------------------------------------------------------------------

CharAt(s, i) == SubSeq(s, i, i)

LowerAlphabet == "abcdefghijklmnopqrstuvwxyz"

UpperAlphabet == "ABCDEFGHIJKLMNOPQRSTUVWXYZ"

DigitChars == "0123456789"

LowerLetters == {CharAt(LowerAlphabet, i) : i \in 1..Len(LowerAlphabet)}

UpperLetters == {CharAt(UpperAlphabet, i) : i \in 1..Len(UpperAlphabet)}

Digits == {CharAt(DigitChars, i) : i \in 1..Len(DigitChars)}

IsLowerLetter(c) == c \in LowerLetters

IsUpperLetter(c) == c \in UpperLetters

IsLetter(c) == IsLowerLetter(c) \/ IsUpperLetter(c)

IsDigit(c) == c \in Digits

\* \s of a JavaScript regular expression, for the characters the utterances use
IsSpace(c) == c = " "

LowerOf == [c \in UpperLetters |-> CharAt(LowerAlphabet, CHOOSE i \in 1..26 : CharAt(UpperAlphabet, i) = c)]

UpperOf == [c \in LowerLetters |-> CharAt(UpperAlphabet, CHOOSE i \in 1..26 : CharAt(LowerAlphabet, i) = c)]

LowerChar(c) == IF IsUpperLetter(c) THEN LowerOf[c] ELSE c

UpperChar(c) == IF IsLowerLetter(c) THEN UpperOf[c] ELSE c

RECURSIVE LowerRange(_, _, _)
\* the characters lo..hi of s in lower case (halving keeps the evaluation
\* shallow on long sentences)
LowerRange(s, lo, hi) ==
    IF lo > hi THEN ""
    ELSE IF lo = hi THEN LowerChar(CharAt(s, lo))
    ELSE LowerRange(s, lo, (lo + hi) \div 2) \o LowerRange(s, (lo + hi) \div 2 + 1, hi)

\* String.prototype.toLowerCase
toLowerCase(s) == LowerRange(s, 1, Len(s))

RECURSIVE UpperRange(_, _, _)
UpperRange(s, lo, hi) ==
    IF lo > hi THEN ""
    ELSE IF lo = hi THEN UpperChar(CharAt(s, lo))
    ELSE UpperRange(s, lo, (lo + hi) \div 2) \o UpperRange(s, (lo + hi) \div 2 + 1, hi)

\* String.prototype.toUpperCase
toUpperCase(s) == UpperRange(s, 1, Len(s))

\* String.prototype.startsWith at a 1-based position
StartsWithAt(s, p, i) == i + Len(p) - 1 <= Len(s) /\ SubSeq(s, i, i + Len(p) - 1) = p

\* String.prototype.includes
includes(s, p) == \E i \in 1..(Len(s) - Len(p) + 1) : StartsWithAt(s, p, i)

RECURSIVE SkipSpaces(_, _)
\* first position at or after i that holds no whitespace (Len(s) + 1 when none)
SkipSpaces(s, i) == IF i <= Len(s) /\ IsSpace(CharAt(s, i)) THEN SkipSpaces(s, i + 1) ELSE i

RECURSIVE SkipLetters(_, _)
\* first position at or after i that holds no letter
SkipLetters(s, i) == IF i <= Len(s) /\ IsLetter(CharAt(s, i)) THEN SkipLetters(s, i + 1) ELSE i

RECURSIVE CollapseRange(_, _, _)
\* replace(/\s+/g, " ") of the characters lo..hi: a whitespace run keeps one space
CollapseRange(s, lo, hi) ==
    IF lo > hi THEN ""
    ELSE IF lo = hi
         THEN IF ~IsSpace(CharAt(s, lo)) THEN CharAt(s, lo)
              ELSE IF lo > 1 /\ IsSpace(CharAt(s, lo - 1)) THEN "" ELSE " "
    ELSE CollapseRange(s, lo, (lo + hi) \div 2) \o CollapseRange(s, (lo + hi) \div 2 + 1, hi)

\* String.prototype.trim of a text whose whitespace runs are already single
TrimCollapsed(s) ==
    LET a == IF Len(s) > 0 /\ IsSpace(CharAt(s, 1)) THEN 2 ELSE 1
        b == IF Len(s) > 0 /\ IsSpace(CharAt(s, Len(s))) THEN Len(s) - 1 ELSE Len(s)
    IN  IF a > b THEN "" ELSE SubSeq(s, a, b)

RECURSIVE LastNonSpace(_, _)
\* last position at or before i that holds no whitespace, 0 for none
LastNonSpace(s, i) == IF i >= 1 /\ IsSpace(CharAt(s, i)) THEN LastNonSpace(s, i - 1) ELSE i

\* String.prototype.trim
trim(s) == IF SkipSpaces(s, 1) > Len(s) THEN "" ELSE SubSeq(s, SkipSpaces(s, 1), LastNonSpace(s, Len(s)))

\* replace(/\s+/g, " ").trim()
normalizeSpaces(s) == TrimCollapsed(CollapseRange(s, 1, Len(s)))

RECURSIVE SplitFrom(_, _)
\* split(" ").filter(Boolean) of a normalised text, from position i on
SplitFrom(s, i) ==
    IF i > Len(s) THEN <<>>
    ELSE IF IsSpace(CharAt(s, i)) THEN SplitFrom(s, i + 1)
    ELSE LET RECURSIVE WordEnd(_)
             WordEnd(j) == IF j <= Len(s) /\ ~IsSpace(CharAt(s, j)) THEN WordEnd(j + 1) ELSE j
             e == WordEnd(i)
         IN  <<SubSeq(s, i, e - 1)>> \o SplitFrom(s, e)

RECURSIVE JoinFrom(_, _, _)
\* Array.prototype.join
JoinFrom(parts, sep, i) ==
    IF i > Len(parts) THEN ""
    ELSE IF i = Len(parts) THEN parts[i]
    ELSE parts[i] \o sep \o JoinFrom(parts, sep, i + 1)

join(parts, sep) == JoinFrom(parts, sep, 1)

\* ------------------------------------------------------------------------
\* src/server.js: the postcode phonetic decoder
\* ------------------------------------------------------------------------

\* the value null of extractUkPostcode
NoMatch == "<null>"

DIGIT_WORDS ==
    [w \in {"zero", "oh", "one", "two", "three", "four", "five", "six", "seven", "eight", "nine"} |->
        CASE w = "zero" -> "0" [] w = "oh" -> "0" [] w = "one" -> "1" [] w = "two" -> "2"
          [] w = "three" -> "3" [] w = "four" -> "4" [] w = "five" -> "5" [] w = "six" -> "6"
          [] w = "seven" -> "7" [] w = "eight" -> "8" [] w = "nine" -> "9"]

\* the table with whiskey spelled whisky
NATO_Whisky ==
    [w \in {"alpha", "sierra", "whisky"} |-> UpperChar(CharAt(w, 1))]

NATO ==
    [w \in {"alpha", "bravo", "charlie", "delta", "echo", "foxtrot", "golf", "hotel", "india",
            "juliet", "kilo", "lima", "mike", "november", "oscar", "papa", "quebec", "romeo",
            "sierra", "tango", "uniform", "victor", "whiskey", "xray", "x-ray", "yankee", "zulu"} |->
        IF w = "x-ray" THEN "X" ELSE UpperChar(CharAt(w, 1))]

\* /^[A-Z]{1,2}[0-9][A-Z0-9]?[0-9][A-Z]{2}$/.test(compact)
looksLikeUkPostcode(compact) ==
    \E area \in 1..2, opt \in 0..1 :
        /\ Len(compact) = area + 1 + opt + 3
        /\ \A i \in 1..area : IsUpperLetter(CharAt(compact, i))
        /\ IsDigit(CharAt(compact, area + 1))
        /\ opt = 1 => (IsUpperLetter(CharAt(compact, area + 2)) \/ IsDigit(CharAt(compact, area + 2)))
        /\ IsDigit(CharAt(compact, area + opt + 2))
        /\ IsUpperLetter(CharAt(compact, area + opt + 3))
        /\ IsUpperLetter(CharAt(compact, area + opt + 4))

\* the space put before the last two characters
formatUkPostcodeOffByOne(compact) ==
    SubSeq(compact, 1, Len(compact) - 2) \o " " \o SubSeq(compact, Len(compact) - 1, Len(compact))

\* `${compact.slice(0, -3)} ${compact.slice(-3)}`
formatUkPostcode(compact) ==
    IF Len(compact) <= 3 THEN " " \o compact
    ELSE SubSeq(compact, 1, Len(compact) - 3) \o " " \o SubSeq(compact, Len(compact) - 2, Len(compact))

\* No match of /(^|[\s,])([a-z])\s*(for|as in|like)\s+([a-z]+)/i at position i
PhoneticFail(i) == [matched |-> FALSE, letter |-> "", next |-> i]

\* length of the alternative of (for|as in|like) that lo begins with, 0 for none
PhoneticKeyword(lo) ==
    IF StartsWithAt(lo, "for", 1) THEN 3
    ELSE IF StartsWithAt(lo, "as in", 1) THEN 5
    ELSE IF StartsWithAt(lo, "like", 1) THEN 4
    ELSE 0

\* \s+([a-z]+) from position a: b is where the spaces end, e where the word ends
PhoneticWord(text, i, p, a, b, e) ==
    IF b = a \/ e = b THEN PhoneticFail(i)
    ELSE [matched |-> TRUE, letter |-> UpperChar(CharAt(text, p)), next |-> e]

\* (for|as in|like)\s+([a-z]+) from position k, kw the length of the keyword there
PhoneticAfterLetter(text, i, p, k, kw) ==
    IF kw = 0 THEN PhoneticFail(i)
    ELSE PhoneticWord(text, i, p, k + kw, SkipSpaces(text, k + kw),
                      SkipLetters(text, SkipSpaces(text, k + kw)))

\* \s*(for|as in|like) from position k, after the captured letter at p
PhoneticFromKeyword(text, i, p, k) ==
    PhoneticAfterLetter(text, i, p, k, PhoneticKeyword(toLowerCase(SubSeq(text, k, Len(text)))))

\* ([a-z])\s*(for|as in|like)\s+([a-z]+) with the captured letter at position p
PhoneticTry(text, i, p) ==
    IF p > Len(text) \/ ~IsLetter(CharAt(text, p)) THEN PhoneticFail(i)
    ELSE PhoneticFromKeyword(text, i, p, SkipSpaces(text, p + 1))

\* One attempt of the expression with the match beginning at position i:
\* [matched, letter, next] where next is the position after the match.
PhoneticMatchAt(text, i) ==
    IF i = 1 /\ PhoneticTry(text, i, 1).matched THEN PhoneticTry(text, i, 1)
    ELSE IF i <= Len(text) /\ (IsSpace(CharAt(text, i)) \/ CharAt(text, i) = ",")
         THEN PhoneticTry(text, i, i + 1)
         ELSE PhoneticFail(i)

RECURSIVE PhoneticLettersFrom(_, _)
\* the while ((m = re.exec(text)) !== null) loop: leftmost match at or after i,
\* then on from the end of that match
PhoneticLettersFrom(text, i) ==
    IF i > Len(text) THEN <<>>
    ELSE LET m == PhoneticMatchAt(text, i)
         IN  IF m.matched THEN <<m.letter>> \o PhoneticLettersFrom(text, m.next)
             ELSE PhoneticLettersFrom(text, i + 1)

RECURSIVE CleanRange(_, _, _)
\* toLowerCase().replace(/[^a-z0-9\s-]/g, " ") of the characters lo..hi
CleanRange(s, lo, hi) ==
    IF lo > hi THEN ""
    ELSE IF lo = hi
         THEN LET c == LowerChar(CharAt(s, lo))
              IN  IF IsLowerLetter(c) \/ IsDigit(c) \/ IsSpace(c) \/ c = "-" THEN c ELSE " "
    ELSE CleanRange(s, lo, (lo + hi) \div 2) \o CleanRange(s, (lo + hi) \div 2 + 1, hi)

IsAlnumToken(t) == Len(t) > 0 /\ \A i \in 1..Len(t) : IsLowerLetter(CharAt(t, i)) \/ IsDigit(CharAt(t, i))

RECURSIVE DecodeTokens(_, _)
\* the for loop over tokens: the symbols pushed from token i on
DecodeTokens(tokens, i) ==
    IF i > Len(tokens) THEN <<>>
    ELSE LET t == tokens[i]
         IN  IF t = "double" /\ i < Len(tokens) /\ tokens[i + 1] = "u"
                 THEN <<"W">> \o DecodeTokens(tokens, i + 2)
             ELSE IF Len(t) = 1 /\ IsLowerLetter(t)
                 THEN <<UpperChar(t)>> \o DecodeTokens(tokens, i + 1)
             ELSE IF t \in DOMAIN NATO
                 THEN <<NATO[t]>> \o DecodeTokens(tokens, i + 1)
             ELSE IF t \in DOMAIN DIGIT_WORDS
                 THEN <<DIGIT_WORDS[t]>> \o DecodeTokens(tokens, i + 1)
             ELSE IF IsAlnumToken(t) /\ Len(t) <= 7
                 THEN <<toUpperCase(t)>> \o DecodeTokens(tokens, i + 1)
             ELSE DecodeTokens(tokens, i + 1)

RECURSIVE KeepUpperAlnum(_, _, _)
\* replace(/[^A-Z0-9]/g, "") of the characters lo..hi
KeepUpperAlnum(s, lo, hi) ==
    IF lo > hi THEN ""
    ELSE IF lo = hi
         THEN IF IsUpperLetter(CharAt(s, lo)) \/ IsDigit(CharAt(s, lo)) THEN CharAt(s, lo) ELSE ""
    ELSE KeepUpperAlnum(s, lo, (lo + hi) \div 2) \o KeepUpperAlnum(s, (lo + hi) \div 2 + 1, hi)

\* the array out of extractUkPostcode after the token loop
DecodedSymbols(raw) ==
    LET cleaned == normalizeSpaces(CleanRange(raw, 1, Len(raw)))
    IN  PhoneticLettersFrom(raw, 1) \o DecodeTokens(SplitFrom(cleaned, 1), 1)

\* the last lines of extractUkPostcode: out.join("") stripped to A-Z0-9, tested,
\* formatted
formatIfPostcode(compact) ==
    IF ~looksLikeUkPostcode(compact) THEN NoMatch ELSE formatUkPostcode(compact)

stripToUpperAlnum(joined) == KeepUpperAlnum(joined, 1, Len(joined))

extractUkPostcode(raw) ==
    IF normalizeSpaces(raw) = "" THEN NoMatch
    ELSE formatIfPostcode(stripToUpperAlnum(join(DecodedSymbols(raw), "")))


\* ------------------------------------------------------------------------
\* src/server.js, first server: currency lock, category, call state
\* ------------------------------------------------------------------------

\* the four dollar markers in a lower-case text
hasDollarMarker(t) ==
    includes(t, "$") \/ includes(t, "usd") \/ includes(t, "dollar") \/ includes(t, "bucks")

\* containsDollar of the first server
firstContainsDollar(text) == hasDollarMarker(toLowerCase(text))

some(list, t) == \E x \in list : includes(t, x)

safeSpeak(text) ==
    IF firstContainsDollar(text)
    THEN "Sorry, that's in pounds. We keep everything in GBP. Is the cleaning for a home or for a business premises?"
    ELSE text

emptyQuote ==
    [ service_category |-> "domestic",
      domestic_service_type |-> "", commercial_service_type |-> "",
      domestic_property_type |-> "", commercial_property_type |-> "",
      job_type |-> "", bedrooms |-> 0, bathrooms |-> 0, toilets |-> 0, kitchens |-> 0,
      postcode |-> "", preferred_hours |-> 0, visit_frequency_per_week |-> 0,
      areas_scope |-> "", extras |-> <<>>, notes |-> "" ]

\* detectCategory of the first server; "" stands for null
detectCategory(text) ==
    LET lower == toLowerCase(text)
        d == some({"home", "house", "flat", "apartment", "studio", "tenancy", "landlord",
                   "move out", "move-out"}, lower)
        c == some({"office", "shop", "warehouse", "school", "clinic", "gym", "venue", "site",
                   "business", "restaurant", "workplace"}, lower)
    IN  IF d /\ ~c THEN "domestic" ELSE IF c /\ ~d THEN "commercial" ELSE ""

initState == [stage |-> "need_category", quote |-> emptyQuote, postcode_attempts |-> 0]

\* the result null of aiExtractQuoteDelta: no key, a failed request, a response
\* that GetQuoteSchema rejects
NoAi == [none |-> TRUE]

\* the sentences the first server gives to gatherSay (typographic apostrophes
\* written as ')
FirstPrompt ==
    [ greeting |-> "Hi, you're through to TotalSpark Solutions. Is the cleaning for a home or for a business premises?",
      no_input |-> "Sorry, I didn't catch that. Is it for a home or for a business premises?",
      category_retry |-> "No problem. Is the cleaning for a home or for a business premises?",
      service_domestic |-> "Thanks. What type of cleaning do you need for the home? For example end of tenancy, deep clean, regular cleaning, post-construction, or disinfection.",
      service_commercial |-> "Thanks. What type of commercial cleaning do you need? For example regular commercial cleaning, deep clean, post-construction, or disinfection.",
      service_retry |-> "Sorry, which type of cleaning is it? End of tenancy, deep clean, regular cleaning, post-construction, or disinfection.",
      property_domestic |-> "Thanks. What's the property type? A studio flat, a flat, or a house? If it's a house, is it terraced, semi-detached, or detached?",
      property_commercial |-> "Thanks. What type of premises is it? For example office, shop, warehouse, school, clinic, gym, or event venue.",
      postcode |-> "Thanks. What's the postcode? You can say it letter by letter, or like S for Sun, W as in Winter.",
      postcode_hint |-> "Sorry, I didn't get that. Please say the postcode slowly, letter by letter. You can also say S for Sun style.",
      postcode_fallback |-> "No worries. Postcodes are tricky on calls. What town are you in, and the nearest landmark or street name?",
      after_fallback |-> "Thanks. Next, how many bedrooms and bathrooms is it?",
      placeholder |-> "Thanks. Tell me the bedrooms and bathrooms, and we'll carry on from there." ]

\* SpeechResult of the requests to the first server
FirstUtterances ==
    {"", "  ", "it is a house", "the office", "SW1A 1AA", "S W 1 A 1 A A", " sorry what ",
     "leeds near the station"}

\* (req.body.SpeechResult || "").trim() of each utterance
FirstSaid == [u \in FirstUtterances |-> trim(u)]

\* extractUkPostcode and detectCategory of each utterance, evaluated once
FirstHeard ==
    [u \in {FirstSaid[r] : r \in FirstUtterances} |->
        [postcode |-> extractUkPostcode(u), category |-> detectCategory(u)]]

\* safeSpeak of each fixed sentence, evaluated once
FirstSafe == [k \in DOMAIN FirstPrompt |-> safeSpeak(FirstPrompt[k])]

\* the need_category branch
firstNeedCategory(st, speech) ==
    LET d == FirstHeard[speech].category
        cat == IF d # "" THEN d ELSE st.quote.service_category
    IN  IF cat # "domestic" /\ cat # "commercial"
        THEN [st |-> st, spoken |-> FirstSafe.category_retry]
        ELSE [st |-> [st EXCEPT !.quote.service_category = cat, !.stage = "need_service_type"],
              spoken |-> IF cat = "domestic" THEN FirstSafe.service_domestic
                         ELSE FirstSafe.service_commercial]

\* the need_service_type branch
firstNeedServiceType(st, speech) ==
    LET q == st.quote
        ok == \/ (q.service_category = "domestic" /\ Len(normalizeSpaces(q.domestic_service_type)) > 0)
              \/ (q.service_category = "commercial" /\ Len(normalizeSpaces(q.commercial_service_type)) > 0)
    IN  IF ~ok
        THEN [st |-> st, spoken |-> FirstSafe.service_retry]
        ELSE [st |-> [st EXCEPT !.stage = "need_property_type"],
              spoken |-> IF q.service_category = "domestic" THEN FirstSafe.property_domestic
                         ELSE FirstSafe.property_commercial]

\* the need_property_type branch
firstNeedPropertyType(st, speech) ==
    [st |-> [st EXCEPT !.stage = "need_postcode"], spoken |-> FirstSafe.postcode]

\* the need_postcode branch with the fallback one failure late
firstNeedPostcodeThreeAsks(st, speech) ==
    LET parsed == FirstHeard[speech].postcode
        n == st.postcode_attempts + 1
    IN  IF parsed = NoMatch
        THEN IF n >= 3
             THEN [st |-> [st EXCEPT !.postcode_attempts = n, !.stage = "postcode_fallback",
                                     !.quote.notes = @ \o " Postcode capture failed. Caller said: \""
                                                       \o speech \o "\"."],
                   spoken |-> FirstSafe.postcode_fallback]
             ELSE [st |-> [st EXCEPT !.postcode_attempts = n], spoken |-> FirstSafe.postcode_hint]
        ELSE [st |-> [st EXCEPT !.quote.postcode = parsed, !.stage = "next_placeholder"],
              spoken |-> safeSpeak("Thanks. I got " \o parsed \o ". Next, how many bedrooms and bathrooms is it?")]

\* the need_postcode branch
firstNeedPostcode(st, speech) ==
    LET parsed == FirstHeard[speech].postcode
        n == st.postcode_attempts + 1
    IN  IF parsed = NoMatch
        THEN IF n >= 2
             THEN [st |-> [st EXCEPT !.postcode_attempts = n, !.stage = "postcode_fallback",
                                     !.quote.notes = @ \o " Postcode capture failed. Caller said: \""
                                                       \o speech \o "\"."],
                   spoken |-> FirstSafe.postcode_fallback]
             ELSE [st |-> [st EXCEPT !.postcode_attempts = n], spoken |-> FirstSafe.postcode_hint]
        ELSE [st |-> [st EXCEPT !.quote.postcode = parsed, !.stage = "next_placeholder"],
              spoken |-> safeSpeak("Thanks. I got " \o parsed \o ". Next, how many bedrooms and bathrooms is it?")]

\* the postcode_fallback branch
firstPostcodeFallback(st, speech) ==
    [st |-> [st EXCEPT !.quote.notes = @ \o " Fallback location: \"" \o speech \o "\".",
                       !.stage = "next_placeholder"],
     spoken |-> FirstSafe.after_fallback]

\* app.post("/call/input") of the first server: the session after the request and
\* the text spoken through gatherSay. ai is what aiExtractQuoteDelta returned.
\* the AI step of a turn: if (aiQuote) state.quote = aiQuote
firstAiStep(st0, ai) == IF ai # NoAi THEN [st0 EXCEPT !.quote = ai] ELSE st0

firstCallInput(st0, speech, ai) ==
    IF speech = ""
    THEN [st |-> st0, spoken |-> FirstSafe.no_input]
    ELSE LET st == firstAiStep(st0, ai)
         IN  CASE st.stage = "need_category" -> firstNeedCategory(st, speech)
               [] st.stage = "need_service_type" -> firstNeedServiceType(st, speech)
               [] st.stage = "need_property_type" -> firstNeedPropertyType(st, speech)
               [] st.stage = "need_postcode" -> firstNeedPostcode(st, speech)
               [] st.stage = "postcode_fallback" -> firstPostcodeFallback(st, speech)
               [] OTHER -> [st |-> st, spoken |-> FirstSafe.placeholder]

\* ------------------------------------------------------------------------
\* src/unnamed/part_000: the functions that read an utterance
\* ------------------------------------------------------------------------
\* Numbers (hours, visits per week, counts) are held in quarters: 4 stands for
\* 1, 2 for 0.5, 1 for 0.25.

\* the character at position i, "" outside the text
CharOr(s, i) == IF 1 <= i /\ i <= Len(s) THEN SubSeq(s, i, i) ELSE ""

\* the dollar check with the words left out
containsDollarSignOnly(text) == includes(toLowerCase(text), "$")

containsDollar(text) == hasDollarMarker(toLowerCase(text))

ensureGbpSpeech(text) ==
    IF containsDollar(text)
    THEN "Sorry, I only quote in pounds. Is the cleaning for a home or for a business premises?"
    ELSE text

lower(s) == toLowerCase(normalizeSpaces(s))

\* where /[A-Z]{1,2}\d[A-Z\d]?\s*\d[A-Z]{2}/ ends when it begins at i with `area`
\* letters and `opt` optional characters, sp being the position after \s*; 0 for
\* no match
PostcodeEndAfterSpaces(t, i, area, opt, sp) ==
    IF /\ \A j \in i..(i + area - 1) : IsUpperLetter(CharOr(t, j))
       /\ IsDigit(CharOr(t, i + area))
       /\ opt = 1 => (IsUpperLetter(CharOr(t, i + area + 1)) \/ IsDigit(CharOr(t, i + area + 1)))
       /\ IsDigit(CharOr(t, sp))
       /\ IsUpperLetter(CharOr(t, sp + 1))
       /\ IsUpperLetter(CharOr(t, sp + 2))
    THEN sp + 2
    ELSE 0

PostcodeEnd(t, i, area, opt) ==
    PostcodeEndAfterSpaces(t, i, area, opt, SkipSpaces(t, i + area + 1 + opt))

\* the end of the match beginning at i, the longer alternatives tried first
PostcodeMatchEnd(t, i) ==
    IF PostcodeEnd(t, i, 2, 1) > 0 THEN PostcodeEnd(t, i, 2, 1)
    ELSE IF PostcodeEnd(t, i, 2, 0) > 0 THEN PostcodeEnd(t, i, 2, 0)
    ELSE IF PostcodeEnd(t, i, 1, 1) > 0 THEN PostcodeEnd(t, i, 1, 1)
    ELSE PostcodeEnd(t, i, 1, 0)

RECURSIVE PostcodeMatchFrom(_, _)
\* t.match(...)[1]: the leftmost match at or after i, "" for none
PostcodeMatchFrom(t, i) ==
    IF i > Len(t) THEN ""
    ELSE IF PostcodeMatchEnd(t, i) > 0 THEN SubSeq(t, i, PostcodeMatchEnd(t, i))
    ELSE PostcodeMatchFrom(t, i + 1)

RECURSIVE FirstSpace(_, _)
\* first position at or after i that holds whitespace, 0 for none
FirstSpace(s, i) ==
    IF i > Len(s) THEN 0 ELSE IF IsSpace(CharAt(s, i)) THEN i ELSE FirstSpace(s, i + 1)

\* replace(/\s+/, " ") given the position p of the first whitespace
ReplaceSpacesAt(m, p) ==
    IF p = 0 THEN m
    ELSE SubSeq(m, 1, p - 1) \o " " \o SubSeq(m, SkipSpaces(m, p), Len(m))

\* m.replace(/\s+/, " "): the first whitespace run becomes one space
ReplaceFirstSpaces(m) == ReplaceSpacesAt(m, FirstSpace(m, 1))

looksLikePostcode(s) == PostcodeMatchFrom(toUpperCase(normalizeSpaces(s)), 1) # ""

extractPostcode(s) == ReplaceFirstSpaces(PostcodeMatchFrom(toUpperCase(normalizeSpaces(s)), 1))

\* null of extractNumber and frequencyFromSpeech
NoNumber == -1

RECURSIVE FirstDigit(_, _)
\* first position at or after i that holds a digit, 0 for none
FirstDigit(s, i) ==
    IF i > Len(s) THEN 0 ELSE IF IsDigit(CharAt(s, i)) THEN i ELSE FirstDigit(s, i + 1)

RECURSIVE SkipDigits(_, _)
\* first position at or after i that holds no digit
SkipDigits(s, i) == IF i <= Len(s) /\ IsDigit(CharAt(s, i)) THEN SkipDigits(s, i + 1) ELSE i

DigitValue(c) == CHOOSE d \in 0..9 : CharAt(DigitChars, d + 1) = c

RECURSIVE DecimalValue(_, _, _)
\* the number written by the digits lo..hi of s
DecimalValue(s, lo, hi) ==
    IF lo > hi THEN 0 ELSE 10 * DecimalValue(s, lo, hi - 1) + DigitValue(CharAt(s, hi))

RECURSIVE TenTo(_)
TenTo(n) == IF n = 0 THEN 1 ELSE 10 * TenTo(n - 1)

\* Number(m[1]) in quarters, the integer digits at p..e-1 and the fraction digits
\* at e+1..f-1 (none when f = e); fractions are .25, .5 and .75 in the utterances
NumberAt(s, p, e, f) ==
    IF f = e THEN 4 * DecimalValue(s, p, e - 1)
    ELSE 4 * DecimalValue(s, p, e - 1) + (4 * DecimalValue(s, e + 1, f - 1)) \div TenTo(f - e - 1)

\* (\d+(\.\d+)?) with the integer digits at p..e-1
NumberFrom(s, p, e) ==
    IF CharOr(s, e) = "." /\ IsDigit(CharOr(s, e + 1))
    THEN NumberAt(s, p, e, SkipDigits(s, e + 1))
    ELSE NumberAt(s, p, e, e)

NumberFromDigit(s, p) == IF p = 0 THEN NoNumber ELSE NumberFrom(s, p, SkipDigits(s, p))

extractNumber(s) == NumberFromDigit(s, FirstDigit(s, 1))

\* Math.floor of a number held in quarters
floor(n) == 4 * (n \div 4)

\* Math.max(0, n)
max0(n) == IF n < 0 THEN 0 ELSE n

isAffirmative(s) ==
    some({"yes", "yeah", "yep", "correct", "that's right", "thats right", "sure", "ok", "okay"},
         lower(s))

startsWithOrIs(t, x) == t = x \/ StartsWithAt(t, x \o " ", 1)

isNegative(s) ==
    \E x \in {"no", "nope", "none", "nothing", "not", "don't", "dont"} : startsWithOrIs(lower(s), x)

\* d and c of detectServiceCategoryFromSpeech decided
categoryOf(d, c) == IF d /\ ~c THEN "domestic" ELSE IF c /\ ~d THEN "commercial" ELSE ""

detectServiceCategoryFromSpeech(s) ==
    categoryOf(some({"home", "house", "flat", "apartment", "studio", "tenancy", "landlord",
                     "move out", "move-out", "property"}, lower(s)),
               some({"office", "shop", "warehouse", "school", "clinic", "gym", "venue", "site",
                     "business", "restaurant", "workplace"}, lower(s)))

\* the three tests of detectPartialAreas on the lower-case text
partialAreaHits(t) ==
    (IF includes(t, "only kitchen") \/ includes(t, "just kitchen") \/ t = "kitchen"
     THEN <<"kitchen only">> ELSE <<>>)
    \o (IF includes(t, "only bathroom") \/ includes(t, "just bathroom") \/ t = "bathroom"
        THEN <<"bathroom only">> ELSE <<>>)
    \o (IF some({"toilets only", "only toilets", "just toilets", "wc only"}, t)
        THEN <<"toilets only">> ELSE <<>>)

detectPartialAreas(s) == join(partialAreaHits(lower(s)), ", ")

\* t.includes("post") && (construction || builder || ...), the domestic list
isPostConstruction(t, words) == includes(t, "post") /\ some(words, t)

\* serviceTypeFromSpeech on the lower-case text
serviceTypeOfLower(category, t) ==
    IF category = "domestic"
    THEN IF some({"end of tenancy", "move out", "move-out"}, t) THEN "End of Tenancy Clean"
         ELSE IF includes(t, "deep") THEN "Deep Clean"
         ELSE IF isPostConstruction(t, {"construction", "builder", "after builders",
                                        "after-builder", "after builder"})
              THEN "Post-construction Clean"
         ELSE IF some({"disinfect", "saniti", "sanit"}, t) THEN "Disinfection / Sanitisation"
         ELSE IF some({"regular", "standard", "weekly", "fortnight", "bi-weekly",
                       "every other week", "monthly", "recurring", "ongoing"}, t)
              THEN "Regular Cleaning"
         ELSE ""
    ELSE IF category = "commercial"
    THEN IF includes(t, "regular") THEN "Regular Commercial Cleaning"
         ELSE IF includes(t, "deep") THEN "Deep Clean"
         ELSE IF isPostConstruction(t, {"construction", "builder", "after builders", "after builder"})
              THEN "Post-construction Clean"
         ELSE IF some({"disinfect", "saniti", "sanit"}, t) THEN "Disinfection / Sanitisation"
         ELSE IF some({"office cleaning", "commercial cleaning"}, t) THEN "Regular Commercial Cleaning"
         ELSE ""
    ELSE ""

serviceTypeFromSpeech(category, s) == serviceTypeOfLower(category, lower(s))

jobTypeOfLower(t) ==
    IF some({"one off", "one-off", "one time", "one-time", "once"}, t) THEN "one_time"
    ELSE IF some({"ongoing", "regular", "recurring"}, t) THEN "regular"
    ELSE ""

jobTypeFromSpeech(s) == jobTypeOfLower(lower(s))

\* the smallest member of a set of positions, 0 for the empty set
FirstIndex(S) == IF S = {} THEN 0 ELSE CHOOSE i \in S : \A j \in S : i <= j

\* the table `hard` of frequencyFromSpeech, the values in quarters
FrequencyTable ==
    << [phrases |-> {"weekly", "once a week", "every week", "one day a week"}, val |-> 4],
       [phrases |-> {"fortnightly", "bi-weekly", "every other week", "once every two weeks",
                     "alternate weeks"}, val |-> 2],
       [phrases |-> {"monthly", "once a month", "every month", "one visit a month"}, val |-> 1],
       [phrases |-> {"twice a week", "two times a week", "2 times a week", "2x a week"}, val |-> 8],
       [phrases |-> {"three times a week", "3 times a week", "3x a week"}, val |-> 12],
       [phrases |-> {"every weekday", "weekdays"}, val |-> 20],
       [phrases |-> {"daily monday to friday", "daily mon to fri", "daily monday-friday"}, val |-> 20],
       [phrases |-> {"daily including weekends", "every day"}, val |-> 28] >>

\* frequencyFromSpeech given the first row of the table that matches (0: none)
frequencyOfLower(t, row) ==
    IF row > 0 THEN FrequencyTable[row].val
    ELSE IF includes(t, "per week") THEN extractNumber(t)
    ELSE NoNumber

frequencyFromSpeech(s) ==
    frequencyOfLower(lower(s),
                     FirstIndex({i \in DOMAIN FrequencyTable : some(FrequencyTable[i].phrases, lower(s))}))

domesticPropertyOfLower(t) ==
    IF includes(t, "studio") THEN [value |-> "Studio flat", needsConfirm |-> FALSE]
    ELSE IF some({"flat", "apartment", "maisonette", "upstairs flat", "ground floor flat"}, t)
         THEN [value |-> "Flat", needsConfirm |-> FALSE]
    ELSE IF includes(t, "semi") THEN [value |-> "Semi-detached house", needsConfirm |-> TRUE]
    ELSE IF includes(t, "detached")
         THEN [value |-> "Detached house",
               needsConfirm |-> some({"semi", "semmy", "semi-d", "terrace", "terraced", "mid-terrace",
                                      "end terrace", "detached-ish", "flat-ish", "apartment sort of",
                                      "studio-type"}, t)]
    ELSE IF includes(t, "terrace") \/ includes(t, "terraced")
         THEN [value |-> "Terraced house", needsConfirm |-> TRUE]
    ELSE [value |-> "", needsConfirm |-> TRUE]

\* a normaliser that keeps the caller's words
normalizeDomesticPropertyTypeRaw(s) == [value |-> s, needsConfirm |-> TRUE]

normalizeDomesticPropertyType(s) == domesticPropertyOfLower(lower(s))

\* the table `map` of normalizeCommercialPropertyType
CommercialPropertyTable ==
    << [k |-> {"office"}, v |-> "Office"],
       [k |-> {"school"}, v |-> "School"],
       [k |-> {"clinic", "medical"}, v |-> "Medical clinic"],
       [k |-> {"warehouse"}, v |-> "Warehouse"],
       [k |-> {"commercial kitchen", "kitchen"}, v |-> "Commercial kitchen"],
       [k |-> {"retail", "shop", "store"}, v |-> "Retail shop"],
       [k |-> {"nursery", "daycare", "day care"}, v |-> "Nursery (daycare)"],
       [k |-> {"gym"}, v |-> "Gym"],
       [k |-> {"workshop", "industrial"}, v |-> "Industrial workshop"],
       [k |-> {"venue", "event"}, v |-> "Event venue"] >>

commercialPropertyOfRow(row) ==
    IF row > 0 THEN [value |-> CommercialPropertyTable[row].v, needsConfirm |-> FALSE]
    ELSE [value |-> "", needsConfirm |-> TRUE]

normalizeCommercialPropertyType(s) ==
    commercialPropertyOfRow(
        FirstIndex({i \in DOMAIN CommercialPropertyTable : some(CommercialPropertyTable[i].k, lower(s))}))

\* the table `checks` of detectExtrasMention
ExtraChecks ==
    << [key |-> {"oven"}, name |-> "Oven cleaning"],
       [key |-> {"carpet", "carpets"}, name |-> "Carpet cleaning"],
       [key |-> {"upholstery", "sofa", "couch"}, name |-> "Upholstery cleaning"],
       [key |-> {"inside windows", "internal windows", "inside window"}, name |-> "Inside windows"],
       [key |-> {"limescale"}, name |-> "Limescale removal"],
       [key |-> {"deep toilet", "toilet deep"}, name |-> "Deep toilet clean"],
       [key |-> {"fridge", "freezer"}, name |-> "Fridge / freezer cleaning"],
       [key |-> {"cabinet", "cupboard"}, name |-> "Internal cabinet cleaning"],
       [key |-> {"blinds"}, name |-> "Blinds dusting"],
       [key |-> {"wall spot", "walls"}, name |-> "Wall spot cleaning"],
       [key |-> {"pet hair"}, name |-> "Pet hair removal"],
       [key |-> {"mold", "mould"}, name |-> "Mold spot treatment"],
       [key |-> {"mattress"}, name |-> "Mattress steam clean"],
       [key |-> {"extractor", "degrease"}, name |-> "Degreasing extractor fans"] >>

RECURSIVE extrasHitsFrom(_, _)
\* the names pushed by the rows i.. of the table for the lower-case text t
extrasHitsFrom(t, i) ==
    IF i > Len(ExtraChecks) THEN <<>>
    ELSE (IF some(ExtraChecks[i].key, t) THEN <<ExtraChecks[i].name>> ELSE <<>>)
         \o extrasHitsFrom(t, i + 1)

detectExtrasMention(s) == extrasHitsFrom(lower(s), 1)

requireClarifyBeforeRefusal(speech) ==
    /\ ~some({"clean", "cleaning", "cleaner"}, lower(speech))
    /\ some({"plumbing", "electric", "gardening", "moving", "removal", "waste", "rubbish",
             "painting", "handyman", "repair"}, lower(speech))

RECURSIVE CountBeforeWord(_, _, _)
\* t.match(/(\d+)\s*(bed|...)/) resp. (bath|...): the number of the leftmost run
\* of digits at or after i that is followed, after optional whitespace, by the
\* word; NoNumber for no match
CountBeforeWord(t, word, i) ==
    IF i > Len(t) THEN NoNumber
    ELSE IF IsDigit(CharAt(t, i)) /\ StartsWithAt(t, word, SkipSpaces(t, SkipDigits(t, i)))
         THEN 4 * DecimalValue(t, i, SkipDigits(t, i) - 1)
         ELSE CountBeforeWord(t, word, i + 1)

\* ------------------------------------------------------------------------
\* src/unnamed/part_000: the session, the draft and the functions on them
\* ------------------------------------------------------------------------

\* state.data as ensureState and /call/start create it
emptyData ==
    [ intent |-> "", service_category |-> "",
      domestic_service_type |-> "", commercial_service_type |-> "",
      domestic_property_type |-> "", commercial_property_type |-> "",
      job_type |-> "", bedrooms |-> 0, bathrooms |-> 0, toilets |-> 0, kitchens |-> 0,
      postcode |-> "", preferred_hours |-> 0, visit_frequency_per_week |-> 0,
      areas_scope |-> "", extras |-> <<>>, notes |-> "" ]

emptyBooking ==
    [ full_name |-> "", phone |-> "", email |-> "", address |-> "", postcode |-> "",
      preferred_date |-> "", preferred_time |-> "" ]

\* quoteResult: null
NoQuote == [none |-> TRUE]

\* the session ensureState creates for a call identifier it has not seen
ensureState ==
    [ stage |-> "start", data |-> emptyData, extrasImpactSpoken |-> FALSE,
      pendingExtraName |-> "", confirmSummaryPending |-> FALSE, quoteResult |-> NoQuote,
      booking |-> emptyBooking ]

\* the floor added to the hours given
raiseHoursAdding(h, least) == h + least

\* if (h > 0 && h < least) h = least; if (h === 0) h = least
raiseHours(h, least) == IF h > 0 /\ h < least THEN least ELSE IF h = 0 THEN least ELSE h

\* applyMinimumHours with one floor for regular commercial jobs, whatever the
\* visit frequency
applyMinimumHoursNoFrequency(data) ==
    IF data.service_category = "domestic"
    THEN IF data.domestic_service_type = "Regular Cleaning" /\ data.job_type = "one_time"
         THEN [data EXCEPT !.preferred_hours = raiseHours(@, 20)]
         ELSE IF data.domestic_service_type = "Regular Cleaning" /\ data.job_type = "regular"
         THEN [data EXCEPT !.preferred_hours = raiseHours(@, 12)]
         ELSE data
    ELSE IF data.service_category = "commercial"
    THEN IF data.job_type = "one_time"
         THEN [data EXCEPT !.preferred_hours = raiseHours(@, 20)]
         ELSE IF data.job_type = "regular"
         THEN [data EXCEPT !.preferred_hours = raiseHours(@, 12)]
         ELSE data
    ELSE data

applyMinimumHours(data) ==
    IF data.service_category = "domestic"
    THEN IF data.domestic_service_type = "Regular Cleaning" /\ data.job_type = "one_time"
         THEN [data EXCEPT !.preferred_hours = raiseHours(@, 20)]
         ELSE IF data.domestic_service_type = "Regular Cleaning" /\ data.job_type = "regular"
         THEN [data EXCEPT !.preferred_hours = raiseHours(@, 12)]
         ELSE data
    ELSE IF data.service_category = "commercial"
    THEN IF data.job_type = "one_time"
         THEN [data EXCEPT !.preferred_hours = raiseHours(@, 20)]
         ELSE IF data.job_type = "regular"
         THEN IF data.visit_frequency_per_week >= 12
              THEN [data EXCEPT !.preferred_hours = raiseHours(@, 4)]
              ELSE [data EXCEPT !.preferred_hours = raiseHours(@, 12)]
         ELSE data
    ELSE data

\* Math.max(h, least)
maxHours(h, least) == IF h >= least THEN h ELSE least

\* src/server.js, second server: applyMinimumHours(category, jobType,
\* preferredHours, visitFreqPerWeek), hours in quarters
secondApplyMinimumHours(category, jobType, preferredHours, visitFreqPerWeek) ==
    IF category = "domestic"
    THEN IF jobType = "regular" THEN maxHours(preferredHours, 12)
         ELSE IF jobType = "one_time" THEN maxHours(preferredHours, 20)
         ELSE preferredHours
    ELSE IF jobType = "one_time" THEN maxHours(preferredHours, 20)
    ELSE IF visitFreqPerWeek >= 12 THEN maxHours(preferredHours, 4)
    ELSE maxHours(preferredHours, 12)

DomesticFlatFee ==
    {"End of Tenancy Clean", "Deep Clean", "Post-construction Clean", "Disinfection / Sanitisation"}

\* quoteCriticalMissing without the visit-frequency items
quoteCriticalMissingNoFrequency(data) ==
    IF data.service_category = "" THEN "service category"
    ELSE IF data.service_category = "domestic"
    THEN IF data.domestic_service_type = "" THEN "domestic service type"
         ELSE IF data.domestic_property_type = "" THEN "domestic property type"
         ELSE IF data.postcode = "" THEN "postcode"
         ELSE IF data.bedrooms < 0 THEN "bedrooms"
         ELSE IF data.bathrooms < 0 THEN "bathrooms"
         ELSE IF data.domestic_service_type = "Regular Cleaning" /\ data.job_type = "" THEN "job type"
         ELSE IF data.domestic_service_type = "Regular Cleaning" /\ data.preferred_hours <= 0
              THEN "hours per visit"
         ELSE IF data.domestic_service_type \in DomesticFlatFee /\ data.toilets < 0 THEN "toilets"
         ELSE ""
    ELSE IF data.service_category = "commercial"
    THEN IF data.commercial_service_type = "" THEN "commercial service type"
         ELSE IF data.commercial_property_type = "" THEN "commercial property type"
         ELSE IF data.job_type = "" THEN "job type"
         ELSE IF data.postcode = "" THEN "postcode"
         ELSE IF data.toilets < 0 THEN "toilets"
         ELSE IF data.kitchens < 0 THEN "kitchens"
         ELSE IF data.preferred_hours <= 0 THEN "hours expected"
         ELSE ""
    ELSE "service category"

quoteCriticalMissing(data) ==
    IF data.service_category = "" THEN "service category"
    ELSE IF data.service_category = "domestic"
    THEN IF data.domestic_service_type = "" THEN "domestic service type"
         ELSE IF data.domestic_property_type = "" THEN "domestic property type"
         ELSE IF data.postcode = "" THEN "postcode"
         ELSE IF data.bedrooms < 0 THEN "bedrooms"
         ELSE IF data.bathrooms < 0 THEN "bathrooms"
         ELSE IF data.domestic_service_type = "Regular Cleaning" /\ data.job_type = "" THEN "job type"
         ELSE IF data.domestic_service_type = "Regular Cleaning" /\ data.preferred_hours <= 0
              THEN "hours per visit"
         ELSE IF data.domestic_service_type = "Regular Cleaning" /\ data.visit_frequency_per_week <= 0
              THEN "visit frequency"
         ELSE IF data.domestic_service_type \in DomesticFlatFee /\ data.toilets < 0 THEN "toilets"
         ELSE ""
    ELSE IF data.service_category = "commercial"
    THEN IF data.commercial_service_type = "" THEN "commercial service type"
         ELSE IF data.commercial_property_type = "" THEN "commercial property type"
         ELSE IF data.job_type = "" THEN "job type"
         ELSE IF data.postcode = "" THEN "postcode"
         ELSE IF data.toilets < 0 THEN "toilets"
         ELSE IF data.kitchens < 0 THEN "kitchens"
         ELSE IF data.preferred_hours <= 0 THEN "hours expected"
         ELSE IF data.job_type = "regular" /\ data.visit_frequency_per_week <= 0 THEN "visit frequency"
         ELSE ""
    ELSE "service category"

\* `${n}` of a number held in quarters
numberText(n) ==
    ToString(n \div 4)
        \o (CASE n % 4 = 0 -> "" [] n % 4 = 1 -> ".25" [] n % 4 = 2 -> ".5" [] n % 4 = 3 -> ".75")

RECURSIVE extrasTextFrom(_, _)
\* extras.map((e) => `${e.name} x${e.quantity}`).join(", ") from entry i on
extrasTextFrom(extras, i) ==
    IF i > Len(extras) THEN ""
    ELSE extras[i].name \o " x" \o numberText(extras[i].quantity)
         \o (IF i < Len(extras) THEN ", " ELSE "") \o extrasTextFrom(extras, i + 1)

\* the closing sentences of both summaries
summaryExtras(extras) ==
    (IF Len(extras) > 0 THEN " Extras: " \o extrasTextFrom(extras, 1) \o "." ELSE " No extras.")
    \o " Is that all correct before I price it?"

plural(n) == IF n # 4 THEN "s" ELSE ""

makeSummaryForCaller(data) ==
    IF data.service_category = "domestic"
    THEN "Just to confirm, it's " \o data.domestic_service_type \o " for a "
         \o numberText(data.bedrooms) \o "-bed " \o data.domestic_property_type \o ", with "
         \o numberText(data.bathrooms) \o " bathroom" \o plural(data.bathrooms)
         \o (IF data.domestic_service_type \in DomesticFlatFee
             THEN ", and " \o numberText(data.toilets) \o " separate toilet" \o plural(data.toilets)
             ELSE "")
         \o ", postcode " \o data.postcode \o "."
         \o (IF data.domestic_service_type = "Regular Cleaning"
             THEN " It's " \o (IF data.job_type = "regular" THEN "ongoing" ELSE "a one-off")
                  \o " at " \o numberText(data.preferred_hours) \o " hours per visit, about "
                  \o numberText(data.visit_frequency_per_week) \o " visit"
                  \o plural(data.visit_frequency_per_week) \o " per week."
             ELSE "")
         \o (IF data.areas_scope # "" THEN " You only want: " \o data.areas_scope \o "." ELSE "")
         \o summaryExtras(data.extras)
    ELSE "Just to confirm, it's " \o data.commercial_service_type \o " for a "
         \o data.commercial_property_type \o ", postcode " \o data.postcode \o "."
         \o " This is " \o (IF data.job_type = "regular" THEN "ongoing" ELSE "a one-time clean") \o "."
         \o " Toilets: " \o numberText(data.toilets) \o ". Kitchens: " \o numberText(data.kitchens) \o "."
         \o " Hours: " \o numberText(data.preferred_hours) \o "."
         \o (IF data.job_type = "regular"
             THEN " Frequency: " \o numberText(data.visit_frequency_per_week) \o " visit"
                  \o plural(data.visit_frequency_per_week) \o " per week."
             ELSE "")
         \o summaryExtras(data.extras)

\* state.data.extras.findIndex((e) => e.name === extraName), 0 for -1
extraIndex(extras, extraName) == FirstIndex({i \in DOMAIN extras : extras[i].name = extraName})

\* upsertExtra given the index found
upsertExtraAt(extras, extraName, qty, idx) ==
    IF idx > 0 THEN [extras EXCEPT ![idx] = [name |-> extraName, quantity |-> qty]]
    ELSE Append(extras, [name |-> extraName, quantity |-> qty])

\* upsertExtra pushing the entry whether or not the name is there
upsertExtraPushing(extras, extraName, qty) ==
    Append(extras, [name |-> extraName, quantity |-> qty])

upsertExtra(extras, extraName, qty) ==
    upsertExtraAt(extras, extraName, qty, extraIndex(extras, extraName))

\* the entries the handler itself writes are objects with a trimmed name and a
\* finite quantity; the two filters keep those with a name and a quantity >= 0
ensureExtrasArrayHasObjects(extras) ==
    SelectSeq(extras, LAMBDA x : Len(x.name) > 0 /\ x.quantity >= 0)

\* setAreasScopeIfAny without the test of the category
setAreasScopeAnyCategory(data, scope) ==
    IF data.areas_scope = "" /\ scope # ""
    THEN [data EXCEPT !.areas_scope = scope, !.domestic_service_type = "Deep Clean"]
    ELSE data

\* setAreasScopeIfAny, scope being detectPartialAreas(speech)
setAreasScopeIfAny(data, scope) ==
    IF data.areas_scope = "" /\ scope # ""
    THEN IF data.service_category = "domestic"
         THEN [data EXCEPT !.areas_scope = scope, !.domestic_service_type = "Deep Clean"]
         ELSE [data EXCEPT !.areas_scope = scope]
    ELSE data

\* ------------------------------------------------------------------------
\* src/unnamed/part_000: the collaborators' answers
\* ------------------------------------------------------------------------

\* resp.data of the pricing collaborator: a string (isString) or an object with
\* the fields it carries; "" and 0 stand for an absent field
QuoteData(isString, text, explanation, total, currency) ==
    [isString |-> isString, text |-> text, explanation |-> explanation, total |-> total,
     currency |-> currency]

\* typeof raw === "string" ? raw : JSON.stringify(raw)
stringify(raw) ==
    IF raw.isString THEN raw.text
    ELSE "{" \o (IF raw.explanation # "" THEN "\"explanation\":\"" \o raw.explanation \o "\"," ELSE "")
             \o (IF raw.total # 0 THEN "\"total\":" \o ToString(raw.total) \o "," ELSE "")
             \o (IF raw.currency # "" THEN "\"currency\":\"" \o raw.currency \o "\"" ELSE "")
         \o "}"

\* the currency check applied to the sentence to be spoken only
forceGbpInExplanationOnly(raw) == ~containsDollar(raw.explanation)

\* forceGbpInQuoteResponse(raw).ok
forceGbpInQuoteResponse(raw) == ~containsDollar(stringify(raw))

\* what callMakeGetQuote can return: a failed request, or the response's data
QuoteAnswers ==
    { [ok |-> FALSE, data |-> QuoteData(FALSE, "", "", 0, "")],
      [ok |-> TRUE, data |-> QuoteData(FALSE, "", "That comes to 120 pounds for the clean.", 120, "GBP")],
      [ok |-> TRUE, data |-> QuoteData(FALSE, "", "", 120, "")],
      [ok |-> TRUE, data |-> QuoteData(FALSE, "", "", 0, "")],
      [ok |-> TRUE, data |-> QuoteData(FALSE, "", "That comes to 45 Dollars.", 45, "")],
      [ok |-> TRUE, data |-> QuoteData(FALSE, "", "That comes to 45 for the clean.", 45, "USD")],
      [ok |-> TRUE, data |-> QuoteData(TRUE, "$45", "", 0, "")] }

\* what callMakeConfirmBooking can return (ok)
BookingAnswers == {TRUE, FALSE}

\* no request sent to a collaborator in the turn
NoCall == [none |-> TRUE]

\* ------------------------------------------------------------------------
\* src/unnamed/part_000: the sentences and the callers' utterances
\* ------------------------------------------------------------------------

\* the fixed sentences given to say and sayGather (typographic apostrophes
\* written as ')
Prompt ==
    [ greeting |-> "Hi, you're through to TotalSpark Solutions. Is the cleaning for a home or for a business premises?",
      no_input |-> "Sorry, I didn't catch that. Is the cleaning for a home or for a business premises?",
      pounds_only |-> "Sorry, I only quote in pounds. Is the cleaning for a home or for a business premises?",
      clarify |-> "What kind of cleaning is this for, a home or a business?",
      extras_impact |-> "Just so you know, adding that will increase the time needed to finish the job, and the price will go up slightly.",
      change |-> "No problem. What would you like to change?",
      schema_fail |-> "Sorry, I'm missing a detail to price this. Can I quickly confirm the postcode and property type?",
      price_fail |-> "Sorry, I couldn't pull the price right now. Can I take your postcode again and I'll try once more?",
      fix_feed |-> "Sorry, I'm only able to quote in pounds. I need to fix the pricing feed first. Can I take your name and number so we call you back with the correct price?",
      have_estimate |-> "Alright. I have the estimate. Would you like to book it in?",
      book_that_in |-> "Would you like to book that in?",
      full_name |-> "Perfect. What's your full name?",
      send_estimate |-> "No problem. Would you like me to send the estimate by text or email?",
      goodbye |-> "Alright. Thanks for calling TotalSpark Solutions.",
      phone |-> "Thanks. What's the best phone number for you?",
      email |-> "And what email should I use?",
      address |-> "What's the address for the job? Postcode is fine if you prefer.",
      date |-> "What date would you like?",
      time |-> "And what time suits you?",
      booking_schema_fail |-> "Sorry, I'm missing a detail to confirm the booking. Can you repeat your full name and phone number?",
      booking_fail |-> "Sorry, I couldn't confirm that booking right now. Can you tell me your preferred date and time again?",
      booked |-> "Perfect, you're booked in. We'll be in touch if we need anything else.",
      category |-> "Is the cleaning for a home or for a business premises?",
      domestic_service |-> "What type of cleaning do you need?",
      commercial_service |-> "What type of commercial cleaning do you need?",
      domestic_service_retry |-> "What type of cleaning do you need? For example end of tenancy, deep clean, regular cleaning, post-construction, or disinfection.",
      commercial_service_retry |-> "What type of commercial cleaning do you need? Regular, deep clean, post-construction, or disinfection.",
      commercial_job |-> "Is this a one-time clean or an ongoing service?",
      commercial_job_retry |-> "Just to confirm, is this a one-time clean or an ongoing service?",
      commercial_property |-> "What type of business premises is it? For example office, shop, warehouse, school, or clinic.",
      commercial_property_retry |-> "Sorry, what type of premises is it? For example office, shop, warehouse, school, or clinic.",
      domestic_property |-> "What's the property type? For example flat or house.",
      domestic_property_retry |-> "Just to check, is that a flat or a house? If it's a house, would it be terraced, semi-detached, or detached?",
      domestic_property_again |-> "No worries. Is it a flat, terraced house, semi-detached, or detached?",
      postcode |-> "What's the postcode?",
      postcode_retry |-> "Sorry, can you repeat the postcode?",
      bedrooms |-> "How many bedrooms is it?",
      bedrooms_retry |-> "Sorry, how many bedrooms is it?",
      bathrooms |-> "How many bathrooms is it?",
      bathrooms_retry |-> "Sorry, how many bathrooms is it?",
      domestic_toilets |-> "Any toilets separate from the bathrooms? If none, say zero.",
      domestic_toilets_retry |-> "Sorry, how many separate toilets would that be? If none, say zero.",
      domestic_job |-> "Is this a one-off clean or ongoing?",
      domestic_job_retry |-> "Just to confirm, is this a one-off clean or ongoing?",
      domestic_hours |-> "How many hours per visit were you expecting?",
      domestic_hours_retry |-> "Sorry, how many hours per visit were you expecting?",
      frequency |-> "How many visits per week would that be?",
      frequency_retry |-> "Just to confirm, how many visits per week would that be?",
      extras |-> "Any extras you want to add, or no extras?",
      is_that_correct |-> "Is that correct?",
      which_extra_domestic |-> "Which extra would you like to add? For example oven cleaning or carpet cleaning. If none, say no extras.",
      which_extra_commercial |-> "Which extra would you like to add? If none, say no extras.",
      rooms |-> "Roughly how many rooms is it, or what size is the area?",
      commercial_toilets |-> "How many toilets are there?",
      commercial_toilets_retry |-> "Sorry, how many toilets are there?",
      kitchens |-> "Any kitchens on site? If yes, how many? If none, say zero.",
      kitchens_retry |-> "Sorry, how many kitchens would that be? If none, say zero.",
      commercial_hours |-> "How many hours were you expecting per visit? If you're not sure, give me your best estimate.",
      commercial_hours_retry |-> "No problem. Roughly how many hours do you think it will take per visit?",
      missed |-> "Sorry, I might have missed that. Is the cleaning for a home or for a business premises?" ]

\* ensureGbpSpeech of each fixed sentence, as say and sayGather hand it on
Safe == [k \in DOMAIN Prompt |-> ensureGbpSpeech(Prompt[k])]

\* everything the handler reads from an utterance
hear(u) ==
    [ dollar |-> containsDollar(u),
      areas |-> detectPartialAreas(u),
      clarify |-> requireClarifyBeforeRefusal(u),
      extras |-> detectExtrasMention(u),
      number |-> extractNumber(u),
      affirmative |-> isAffirmative(u),
      negative |-> isNegative(u),
      category |-> detectServiceCategoryFromSpeech(u),
      domestic_service |-> serviceTypeFromSpeech("domestic", u),
      commercial_service |-> serviceTypeFromSpeech("commercial", u),
      job_type |-> jobTypeFromSpeech(u),
      frequency |-> frequencyFromSpeech(u),
      domestic_property |-> normalizeDomesticPropertyType(u),
      commercial_property |-> normalizeCommercialPropertyType(u),
      postcode |-> extractPostcode(u),
      beds |-> CountBeforeWord(lower(u), "bed", 1),
      baths |-> CountBeforeWord(lower(u), "bath", 1) ]

\* ------------------------------------------------------------------------
\* src/unnamed/part_000: app.post("/call/input")
\* ------------------------------------------------------------------------
\* The handler is an operator from the session, the utterance (speech, with
\* h = hear(speech)), and the answers the collaborators give if they are called
\* (q, b), to: the session after the request (st), the texts handed to say and
\* sayGather in order (spoken), the payloads sent to the pricing and the booking
\* collaborator (quote, booking; NoCall for none), and the extra whose quantity
\* the turn stored (stored; "" for none).

Reply(st, texts) ==
    [st |-> st, spoken |-> texts, quote |-> NoCall, booking |-> NoCall, stored |-> ""]

\* the payload of intent get_quote built from state.data
quotePayload(data) ==
    [ intent |-> "get_quote",
      service_category |-> data.service_category,
      domestic_service_type |-> data.domestic_service_type,
      commercial_service_type |-> data.commercial_service_type,
      domestic_property_type |-> data.domestic_property_type,
      commercial_property_type |-> data.commercial_property_type,
      job_type |-> data.job_type,
      bedrooms |-> data.bedrooms, bathrooms |-> data.bathrooms,
      toilets |-> data.toilets, kitchens |-> data.kitchens,
      postcode |-> data.postcode,
      preferred_hours |-> data.preferred_hours,
      visit_frequency_per_week |-> data.visit_frequency_per_week,
      areas_scope |-> data.areas_scope, extras |-> data.extras, notes |-> data.notes ]

isWhole(n) == n % 4 = 0 /\ n >= 0

\* GetQuoteSchema.safeParse(payload).success
GetQuoteSchema(p) ==
    /\ p.intent = "get_quote"
    /\ p.service_category \in {"domestic", "commercial"}
    /\ isWhole(p.bedrooms) /\ isWhole(p.bathrooms) /\ isWhole(p.toilets) /\ isWhole(p.kitchens)
    /\ Len(p.postcode) >= 1
    /\ p.preferred_hours >= 0 /\ p.visit_frequency_per_week >= 0
    /\ \A i \in DOMAIN p.extras : Len(p.extras[i].name) >= 1 /\ isWhole(p.extras[i].quantity)

\* ConfirmBookingSchema.safeParse(payload).success
ConfirmBookingSchema(p) ==
    /\ p.intent = "confirm_booking"
    /\ Len(p.full_name) >= 1 /\ Len(p.phone) >= 1 /\ Len(p.email) >= 1 /\ Len(p.address) >= 1
    /\ Len(p.postcode) >= 1 /\ Len(p.preferred_date) >= 1 /\ Len(p.preferred_time) >= 1

\* the sentence spoken for a priced quote: explanation, else total, else neither
quoteSentence(data) ==
    IF ~data.isString /\ data.explanation # "" THEN ensureGbpSpeech(data.explanation)
    ELSE IF ~data.isString /\ data.total # 0
         THEN ensureGbpSpeech("Alright. The total comes to £" \o ToString(data.total)
                              \o " including any extras. Would you like to book it in?")
    ELSE Safe.have_estimate

\* the handler at await callMakeGetQuote(parsed.data), the answer not yet there
Suspended == [suspended |-> TRUE]

\* lines 741-804: the payload is built from the draft (minimum hours applied),
\* validated and sent; q is the pricing collaborator's answer, or Suspended for
\* the handler as far as the await
submitQuote(st, pre, payload, q) ==
    IF ~GetQuoteSchema(payload)
    THEN Reply([st EXCEPT !.confirmSummaryPending = FALSE], pre \o <<Safe.schema_fail>>)
    ELSE IF q = Suspended
    THEN [Reply(st, pre) EXCEPT !.quote = payload]
    ELSE IF ~q.ok
    THEN [Reply([st EXCEPT !.confirmSummaryPending = FALSE], pre \o <<Safe.price_fail>>)
            EXCEPT !.quote = payload]
    ELSE IF ~forceGbpInQuoteResponse(q.data)
    THEN [Reply([st EXCEPT !.confirmSummaryPending = FALSE, !.stage = "need_booking_name"],
                pre \o <<Safe.fix_feed>>)
            EXCEPT !.quote = payload]
    ELSE [Reply([st EXCEPT !.quoteResult = q.data, !.stage = "post_quote_booking_decision",
                           !.confirmSummaryPending = FALSE],
                pre \o <<quoteSentence(q.data), Safe.book_that_in>>)
            EXCEPT !.quote = payload]

\* lines 739-768 with the draft after applyMinimumHours
priceDraft(st, pre, data, q) ==
    submitQuote([st EXCEPT !.data = data], pre, quotePayload(data), q)

\* the confirmSummaryPending branch, missing being quoteCriticalMissing(state.data)
confirmSummary(st, pre, h, q, missing) ==
    IF ~h.affirmative
    THEN Reply([st EXCEPT !.confirmSummaryPending = FALSE], pre \o <<Safe.change>>)
    ELSE IF missing # ""
    THEN Reply([st EXCEPT !.confirmSummaryPending = FALSE],
               pre \o <<ensureGbpSpeech("I still need your " \o missing \o ".")>>)
    ELSE priceDraft(st, pre, applyMinimumHours(st.data), q)

\* the session moved to a stage and the next question asked
ask(st, pre, stage, text) == Reply([st EXCEPT !.stage = stage], pre \o <<text>>)

\* the payload of intent confirm_booking built from state.booking
bookingPayload(booking) ==
    [ intent |-> "confirm_booking", full_name |-> booking.full_name, phone |-> booking.phone,
      email |-> booking.email, address |-> booking.address, postcode |-> booking.postcode,
      preferred_date |-> booking.preferred_date, preferred_time |-> booking.preferred_time ]

\* lines 868-895: the booking is validated and sent; b is the booking
\* collaborator's answer
\* submitBooking that takes the whole form again after a refusal
submitBookingFromName(st, pre, payload, b) ==
    IF ~ConfirmBookingSchema(payload)
    THEN ask(st, pre, "need_booking_name", Safe.booking_schema_fail)
    ELSE IF ~b
    THEN [ask(st, pre, "need_booking_name", Safe.booking_fail) EXCEPT !.booking = payload]
    ELSE [Reply(st, pre \o <<Safe.booked>>) EXCEPT !.booking = payload]

submitBooking(st, pre, payload, b) ==
    IF ~ConfirmBookingSchema(payload)
    THEN ask(st, pre, "need_booking_name", Safe.booking_schema_fail)
    ELSE IF ~b
    THEN [ask(st, pre, "need_booking_date", Safe.booking_fail) EXCEPT !.booking = payload]
    ELSE [Reply(st, pre \o <<Safe.booked>>) EXCEPT !.booking = payload]

\* the stages after a quote: the booking decision and the booking details
bookingStage(st, pre, speech, h, b) ==
    CASE st.stage = "post_quote_booking_decision" ->
            IF h.affirmative THEN ask(st, pre, "need_booking_name", Safe.full_name)
            ELSE ask(st, pre, "offer_followup", Safe.send_estimate)
      [] st.stage = "offer_followup" -> Reply(st, pre \o <<Safe.goodbye>>)
      [] st.stage = "need_booking_name" ->
            ask([st EXCEPT !.booking.full_name = speech], pre, "need_booking_phone", Safe.phone)
      [] st.stage = "need_booking_phone" ->
            ask([st EXCEPT !.booking.phone = speech], pre, "need_booking_email", Safe.email)
      [] st.stage = "need_booking_email" ->
            ask([st EXCEPT !.booking.email = speech], pre, "need_booking_address", Safe.address)
      [] st.stage = "need_booking_address" ->
            ask([st EXCEPT !.booking.address = speech,
                           !.booking.postcode = IF @ = "" THEN h.postcode ELSE @],
                pre, "need_booking_date", Safe.date)
      [] st.stage = "need_booking_date" ->
            ask([st EXCEPT !.booking.preferred_date = speech], pre, "need_booking_time", Safe.time)
      [] st.stage = "need_booking_time" ->
            submitBooking([st EXCEPT !.booking.preferred_time = speech,
                                     !.booking.postcode = IF @ = "" THEN st.data.postcode ELSE @],
                          pre,
                          bookingPayload([st.booking EXCEPT
                                            !.preferred_time = speech,
                                            !.postcode = IF @ = "" THEN st.data.postcode ELSE @]),
                          b)

BookingStages ==
    {"post_quote_booking_decision", "offer_followup", "need_booking_name", "need_booking_phone",
     "need_booking_email", "need_booking_address", "need_booking_date", "need_booking_time"}

\* ensureExtrasImpactSpokenOnce: the session and the texts said so far
\* ensureExtrasImpactSpokenOnce without the flag
ensureExtrasImpactSpokenAlways(st, pre) ==
    [st |-> st, pre |-> pre \o <<Safe.extras_impact>>]

ensureExtrasImpactSpokenOnce(st, pre) ==
    IF st.extrasImpactSpoken THEN [st |-> st, pre |-> pre]
    ELSE [st |-> [st EXCEPT !.extrasImpactSpoken = TRUE], pre |-> pre \o <<Safe.extras_impact>>]

\* the read-back of lines 1119-1123 and 1236-1240 for the draft with the
\* extras of quantity 0 taken out
readBack(st, pre, data) ==
    Reply([st EXCEPT !.data = data, !.confirmSummaryPending = TRUE],
          pre \o <<ensureGbpSpeech(makeSummaryForCaller(data)), Safe.is_that_correct>>)

\* the question for the extra at index k of the draft (the first of quantity 0),
\* or for which extra when there is none
askQuantity(st, pre, k, which) ==
    IF k > 0
    THEN Reply([st EXCEPT !.pendingExtraName = st.data.extras[k].name],
               pre \o <<ensureGbpSpeech("How many would that be for " \o st.data.extras[k].name \o "?")>>)
    ELSE Reply(st, pre \o <<which>>)

\* ask_extras_domestic_optional and ask_extras_commercial_optional; which is the
\* stage's own last question
askExtras(st, pre, h, which) ==
    IF h.negative /\ Len(h.extras) = 0
    THEN readBack(st, pre,
                  [st.data EXCEPT !.extras = SelectSeq(@, LAMBDA e : e.quantity > 0)])
    ELSE IF Len(h.extras) > 0
    THEN askQuantity(ensureExtrasImpactSpokenOnce(st, pre).st,
                     ensureExtrasImpactSpokenOnce(st, pre).pre,
                     FirstIndex({i \in DOMAIN st.data.extras : st.data.extras[i].quantity = 0}),
                     which)
    ELSE Reply(st, pre \o <<which>>)

\* tryCaptureBedroomsBathrooms
tryCaptureBedroomsBathrooms(data, h) ==
    [data EXCEPT !.bedrooms = IF h.beds # NoNumber THEN h.beds ELSE @,
                 !.bathrooms = IF h.baths # NoNumber THEN h.baths ELSE @]

\* the question after the bathrooms, by service type
afterBathrooms(st, pre) ==
    IF st.data.domestic_service_type \in DomesticFlatFee
    THEN ask(st, pre, "need_domestic_toilets", Safe.domestic_toilets)
    ELSE IF st.data.domestic_service_type = "Regular Cleaning"
    THEN ask(st, pre, "need_domestic_job_type", Safe.domestic_job)
    ELSE ask(st, pre, "ask_extras_domestic_optional", Safe.extras)

\* a confirmation that takes any reply for a yes
confirmDomesticPropertyTypeAlways(st, pre, h) ==
    ask(st, pre, "need_domestic_postcode", Safe.postcode)

\* the stage confirm_domestic_property_type
confirmDomesticPropertyType(st, pre, h) ==
    IF ~h.affirmative
    THEN ask([st EXCEPT !.data.domestic_property_type = ""],
             pre, "need_domestic_property_type", Safe.domestic_property_again)
    ELSE ask(st, pre, "need_domestic_postcode", Safe.postcode)

\* the approved services and the allowed property types of src/unnamed/part_001
TypeVocabulary ==
    [ domestic_service_type |->
          {"End of Tenancy Clean", "Deep Clean", "Regular Cleaning", "Post-construction Clean",
           "Disinfection / Sanitisation"},
      commercial_service_type |->
          {"Regular Commercial Cleaning", "Deep Clean", "Post-construction Clean",
           "Disinfection / Sanitisation"},
      domestic_property_type |->
          {"Studio flat", "Flat", "Terraced house", "Semi-detached house", "Detached house"},
      commercial_property_type |->
          {"Office", "School", "Medical clinic", "Warehouse", "Commercial kitchen",
           "Retail shop", "Nursery (daycare)", "Nursery", "Gym", "Industrial workshop",
           "Event venue"} ]

\* the stages that collect a domestic draft
domesticStage(st, pre, speech, h) ==
    CASE st.stage = "need_domestic_service_type" ->
            IF h.domestic_service = "" THEN Reply(st, pre \o <<Safe.domestic_service_retry>>)
            ELSE IF h.areas # ""
            THEN ask([st EXCEPT !.data.domestic_service_type = "Deep Clean",
                                !.data.areas_scope = h.areas],
                     pre, "need_domestic_property_type", Safe.domestic_property)
            ELSE ask([st EXCEPT !.data.domestic_service_type = h.domestic_service],
                     pre, "need_domestic_property_type", Safe.domestic_property)
      [] st.stage = "need_domestic_property_type" ->
            IF h.domestic_property.value = "" THEN Reply(st, pre \o <<Safe.domestic_property_retry>>)
            ELSE IF h.domestic_property.needsConfirm
            THEN ask([st EXCEPT !.data.domestic_property_type = h.domestic_property.value],
                     pre, "confirm_domestic_property_type",
                     ensureGbpSpeech("Just to check, would that be " \o h.domestic_property.value \o "?"))
            ELSE ask([st EXCEPT !.data.domestic_property_type = h.domestic_property.value],
                     pre, "need_domestic_postcode", Safe.postcode)
      [] st.stage = "confirm_domestic_property_type" -> confirmDomesticPropertyType(st, pre, h)
      [] st.stage = "need_domestic_postcode" ->
            IF h.postcode = "" THEN Reply(st, pre \o <<Safe.postcode_retry>>)
            ELSE ask([st EXCEPT !.data.postcode = h.postcode], pre, "need_domestic_bedrooms",
                     Safe.bedrooms)
      [] st.stage = "need_domestic_bedrooms" ->
            IF h.number # NoNumber
            THEN ask([st EXCEPT !.data.bedrooms = max0(floor(h.number))],
                     pre, "need_domestic_bathrooms", Safe.bathrooms)
            ELSE IF tryCaptureBedroomsBathrooms(st.data, h).bedrooms = 0
            THEN Reply([st EXCEPT !.data = tryCaptureBedroomsBathrooms(@, h)],
                       pre \o <<Safe.bedrooms_retry>>)
            ELSE ask([st EXCEPT !.data = tryCaptureBedroomsBathrooms(@, h)],
                     pre, "need_domestic_bathrooms", Safe.bathrooms)
      [] st.stage = "need_domestic_bathrooms" ->
            IF h.number # NoNumber
            THEN afterBathrooms([st EXCEPT !.data.bathrooms = max0(floor(h.number))], pre)
            ELSE IF tryCaptureBedroomsBathrooms(st.data, h).bathrooms = 0
            THEN Reply([st EXCEPT !.data = tryCaptureBedroomsBathrooms(@, h)],
                       pre \o <<Safe.bathrooms_retry>>)
            ELSE afterBathrooms([st EXCEPT !.data = tryCaptureBedroomsBathrooms(@, h)], pre)
      [] st.stage = "need_domestic_toilets" ->
            IF h.number # NoNumber
            THEN ask([st EXCEPT !.data.toilets = max0(floor(h.number))],
                     pre, "ask_extras_domestic_optional", Safe.extras)
            ELSE IF h.negative
            THEN ask([st EXCEPT !.data.toilets = 0], pre, "ask_extras_domestic_optional", Safe.extras)
            ELSE Reply(st, pre \o <<Safe.domestic_toilets_retry>>)
      [] st.stage = "need_domestic_job_type" ->
            IF h.job_type = "" THEN Reply(st, pre \o <<Safe.domestic_job_retry>>)
            ELSE ask([st EXCEPT !.data.job_type = h.job_type], pre, "need_domestic_hours",
                     Safe.domestic_hours)
      [] st.stage = "need_domestic_hours" ->
            IF h.number = NoNumber THEN Reply(st, pre \o <<Safe.domestic_hours_retry>>)
            ELSE ask([st EXCEPT !.data.preferred_hours = max0(h.number)],
                     pre, "need_domestic_frequency", Safe.frequency)
      [] st.stage = "need_domestic_frequency" ->
            IF h.frequency = NoNumber THEN Reply(st, pre \o <<Safe.frequency_retry>>)
            ELSE ask([st EXCEPT !.data.visit_frequency_per_week = max0(h.frequency)],
                     pre, "ask_extras_domestic_optional", Safe.extras)
      [] st.stage = "ask_extras_domestic_optional" ->
            askExtras(st, pre, h, Safe.which_extra_domestic)

DomesticStages ==
    {"need_domestic_service_type", "need_domestic_property_type", "confirm_domestic_property_type",
     "need_domestic_postcode", "need_domestic_bedrooms", "need_domestic_bathrooms",
     "need_domestic_toilets", "need_domestic_job_type", "need_domestic_hours",
     "need_domestic_frequency", "ask_extras_domestic_optional"}

\* the stages that collect a commercial draft
commercialStage(st, pre, speech, h) ==
    CASE st.stage = "need_commercial_service_type" ->
            IF h.commercial_service = "" THEN Reply(st, pre \o <<Safe.commercial_service_retry>>)
            ELSE ask([st EXCEPT !.data.commercial_service_type = h.commercial_service],
                     pre, "need_commercial_job_type", Safe.commercial_job)
      [] st.stage = "need_commercial_job_type" ->
            IF h.job_type = "" THEN Reply(st, pre \o <<Safe.commercial_job_retry>>)
            ELSE ask([st EXCEPT !.data.job_type = h.job_type],
                     pre, "need_commercial_property_type", Safe.commercial_property)
      [] st.stage = "need_commercial_property_type" ->
            IF h.commercial_property.value = ""
            THEN Reply(st, pre \o <<Safe.commercial_property_retry>>)
            ELSE ask([st EXCEPT !.data.commercial_property_type = h.commercial_property.value],
                     pre, "need_commercial_rooms_or_area", Safe.rooms)
      [] st.stage = "need_commercial_rooms_or_area" ->
            ask([st EXCEPT !.data.notes = IF @ # "" THEN @ \o "; size: " \o speech
                                          ELSE "size: " \o speech],
                pre, "need_commercial_toilets", Safe.commercial_toilets)
      [] st.stage = "need_commercial_toilets" ->
            IF h.number = NoNumber THEN Reply(st, pre \o <<Safe.commercial_toilets_retry>>)
            ELSE ask([st EXCEPT !.data.toilets = max0(floor(h.number))],
                     pre, "need_commercial_kitchens", Safe.kitchens)
      [] st.stage = "need_commercial_kitchens" ->
            IF h.number # NoNumber
            THEN ask([st EXCEPT !.data.kitchens = max0(floor(h.number))],
                     pre, "need_commercial_postcode", Safe.postcode)
            ELSE IF h.negative
            THEN ask([st EXCEPT !.data.kitchens = 0], pre, "need_commercial_postcode", Safe.postcode)
            ELSE Reply(st, pre \o <<Safe.kitchens_retry>>)
      [] st.stage = "need_commercial_postcode" ->
            IF h.postcode = "" THEN Reply(st, pre \o <<Safe.postcode_retry>>)
            ELSE ask([st EXCEPT !.data.postcode = h.postcode], pre, "need_commercial_hours",
                     Safe.commercial_hours)
      [] st.stage = "need_commercial_hours" ->
            IF h.number = NoNumber THEN Reply(st, pre \o <<Safe.commercial_hours_retry>>)
            ELSE IF st.data.job_type = "regular"
            THEN ask([st EXCEPT !.data.preferred_hours = max0(h.number)],
                     pre, "need_commercial_frequency", Safe.frequency)
            ELSE ask([st EXCEPT !.data.preferred_hours = max0(h.number)],
                     pre, "ask_extras_commercial_optional", Safe.extras)
      [] st.stage = "need_commercial_frequency" ->
            IF h.frequency = NoNumber THEN Reply(st, pre \o <<Safe.frequency_retry>>)
            ELSE ask([st EXCEPT !.data.visit_frequency_per_week = max0(h.frequency)],
                     pre, "ask_extras_commercial_optional", Safe.extras)
      [] st.stage = "ask_extras_commercial_optional" ->
            askExtras(st, pre, h, Safe.which_extra_commercial)

CommercialStages ==
    {"need_commercial_service_type", "need_commercial_job_type", "need_commercial_property_type",
     "need_commercial_rooms_or_area", "need_commercial_toilets", "need_commercial_kitchens",
     "need_commercial_postcode", "need_commercial_hours", "need_commercial_frequency",
     "ask_extras_commercial_optional"}

\* need_category
categoryStage(st, pre, h) ==
    IF h.category = "" THEN Reply(st, pre \o <<Safe.category>>)
    ELSE IF h.category = "domestic"
    THEN ask([st EXCEPT !.data.service_category = "domestic"],
             pre, "need_domestic_service_type", Safe.domestic_service)
    ELSE ask([st EXCEPT !.data.service_category = h.category],
             pre, "need_commercial_service_type", Safe.commercial_service)

\* lines 807-1258: the branch of the session's stage
stageTurn(st, pre, speech, h, b) ==
    IF st.stage \in BookingStages THEN bookingStage(st, pre, speech, h, b)
    ELSE IF st.stage = "start" THEN categoryStage([st EXCEPT !.stage = "need_category"], pre, h)
    ELSE IF st.stage = "need_category" THEN categoryStage(st, pre, h)
    ELSE IF st.stage \in DomesticStages THEN domesticStage(st, pre, speech, h)
    ELSE IF st.stage \in CommercialStages THEN commercialStage(st, pre, speech, h)
    ELSE Reply(st, pre \o <<Safe.missed>>)

\* lines 725-805, then the stages
afterPending(st, pre, speech, h, q, b) ==
    IF st.confirmSummaryPending THEN confirmSummary(st, pre, h, q, quoteCriticalMissing(st.data))
    ELSE stageTurn(st, pre, speech, h, b)

\* lines 714-723: the answer to a pending quantity question
pendingExtra(st, pre, speech, h, q, b) ==
    IF st.pendingExtraName = "" THEN afterPending(st, pre, speech, h, q, b)
    ELSE IF h.number = NoNumber
    THEN Reply(st, pre \o <<ensureGbpSpeech("Sorry, how many would that be for "
                                           \o st.pendingExtraName \o "?")>>)
    ELSE [afterPending([st EXCEPT !.data.extras = upsertExtra(@, st.pendingExtraName,
                                                              max0(floor(h.number))),
                                  !.pendingExtraName = ""],
                       pre, speech, h, q, b)
            EXCEPT !.stored = st.pendingExtraName]

RECURSIVE addMentioned(_, _, _)
\* the loop of lines 708-711 from the mentioned name i on
addMentioned(extras, names, i) ==
    IF i > Len(names) THEN extras
    ELSE addMentioned(IF extraIndex(extras, names[i]) > 0 THEN extras
                      ELSE upsertExtra(extras, names[i], 0),
                      names, i + 1)

\* lines 705-712: the extras mentioned in the utterance
mentionedExtras(st, pre, speech, h, q, b) ==
    IF Len(h.extras) = 0 THEN pendingExtra(st, pre, speech, h, q, b)
    ELSE pendingExtra([ensureExtrasImpactSpokenOnce(st, pre).st
                          EXCEPT !.data.extras = addMentioned(@, h.extras, 1)],
                      ensureExtrasImpactSpokenOnce(st, pre).pre, speech, h, q, b)

\* app.post("/call/input") on the session st of the call
callInput(st, speech, h, q, b) ==
    IF speech = ""
    THEN Reply([st EXCEPT !.data.extras = ensureExtrasArrayHasObjects(@)], <<Safe.no_input>>)
    ELSE IF h.dollar
    THEN Reply([st EXCEPT !.data.extras = ensureExtrasArrayHasObjects(@)], <<Safe.pounds_only>>)
    ELSE IF h.clarify
    THEN Reply([st EXCEPT !.data = setAreasScopeIfAny([@ EXCEPT !.extras = ensureExtrasArrayHasObjects(@)],
                                                      h.areas)],
               <<Safe.clarify>>)
    ELSE mentionedExtras([st EXCEPT !.data = setAreasScopeIfAny([@ EXCEPT !.extras = ensureExtrasArrayHasObjects(@)],
                                                                h.areas)],
                         <<>>, speech, h, q, b)

\* app.post("/call/start"): the session after the request
callStart(st) ==
    [st EXCEPT !.stage = "need_category", !.extrasImpactSpoken = FALSE, !.pendingExtraName = "",
               !.confirmSummaryPending = FALSE, !.quoteResult = NoQuote, !.data = emptyData,
               !.booking = emptyBooking]

\* ------------------------------------------------------------------------
\* src/server.js, second server: what it reads from an utterance
\* ------------------------------------------------------------------------

\* containsDollar of the second server
secondContainsDollar(text) ==
    \E x \in {"$", "usd", "dollar", "bucks"} : includes(toLowerCase(text), x)

\* the "$" signs are replaced only in a text that holds none
enforceGbpOnlySpoken(text) ==
    IF secondContainsDollar(text)
    THEN "Sorry, I only quote in pounds, so I will use £. Is the cleaning for a home or for a business premises?"
    ELSE text

includesAny(t, list) == \E x \in list : includes(toLowerCase(t), x)

secondDetectCategory(text) ==
    LET d == includesAny(text, {"home", "house", "flat", "apartment", "studio", "tenancy",
                                "landlord", "move out", "move-out"})
        c == includesAny(text, {"office", "shop", "warehouse", "school", "clinic", "gym", "venue",
                                "site", "business", "restaurant", "workplace"})
    IN  IF d /\ ~c THEN "domestic" ELSE IF c /\ ~d THEN "commercial" ELSE ""

\* lines 871-875: detectCategory, then the fallback words, "commercial" tested last
categoryOfSpeech(speech) ==
    IF secondDetectCategory(speech) # "" THEN secondDetectCategory(speech)
    ELSE IF includesAny(speech, {"commercial", "business"}) THEN "commercial"
    ELSE IF includesAny(speech, {"domestic", "home"}) THEN "domestic"
    ELSE ""

parseYesNo(text) ==
    IF includesAny(text, {"yes", "yeah", "yep", "sure", "of course", "please", "ok"}) THEN "yes"
    ELSE IF includesAny(text, {"no", "nope", "not", "none", "nothing"}) THEN "no"
    ELSE ""

\* the words of parseNumber in the order of the object's keys
NumberWords == <<"one", "two", "three", "four", "five", "six", "seven", "eight", "nine", "ten">>

RECURSIVE NumberWordFrom(_, _)
NumberWordFrom(t, i) ==
    IF i > Len(NumberWords) THEN NoNumber
    ELSE IF includes(t, NumberWords[i]) THEN 4 * i
    ELSE NumberWordFrom(t, i + 1)

\* Number(m[1]) of /(\d+)/ beginning at p, in quarters; the words when p = 0
parseNumberAt(t, p) ==
    IF p > 0 THEN 4 * DecimalValue(t, p, SkipDigits(t, p) - 1) ELSE NumberWordFrom(t, 1)

parseNumber(text) == parseNumberAt(toLowerCase(text), FirstDigit(toLowerCase(text), 1))

\* \w of a JavaScript regular expression
IsWordChar(c) == IsLetter(c) \/ IsDigit(c) \/ c = "_"

\* \b between the positions i - 1 and i of t
WordBoundary(t, i) == IsWordChar(CharOr(t, i - 1)) # IsWordChar(CharOr(t, i))

\* where /\b([A-Z]{1,2}\d[A-Z\d]?\s?\d[A-Z]{2})\b/ ends when it begins at i with
\* `area` letters and `opt` optional characters and \s? takes `sp` characters; 0
\* for no match
BoundedPostcodeEnd(t, i, area, opt, sp) ==
    IF /\ sp = 1 => IsSpace(CharOr(t, i + area + 1 + opt))
       /\ PostcodeEndAfterSpaces(t, i, area, opt, i + area + 1 + opt + sp) > 0
       /\ WordBoundary(t, i + area + 1 + opt + sp + 3)
    THEN i + area + 1 + opt + sp + 2
    ELSE 0

\* the alternatives in the order the greedy quantifiers try them
BoundedPostcodeTries ==
    << <<2, 1, 1>>, <<2, 1, 0>>, <<2, 0, 1>>, <<2, 0, 0>>,
       <<1, 1, 1>>, <<1, 1, 0>>, <<1, 0, 1>>, <<1, 0, 0>> >>

RECURSIVE BoundedPostcodeTry(_, _, _)
BoundedPostcodeTry(t, i, k) ==
    IF k > Len(BoundedPostcodeTries) THEN 0
    ELSE IF BoundedPostcodeEnd(t, i, BoundedPostcodeTries[k][1], BoundedPostcodeTries[k][2],
                               BoundedPostcodeTries[k][3]) > 0
    THEN BoundedPostcodeEnd(t, i, BoundedPostcodeTries[k][1], BoundedPostcodeTries[k][2],
                            BoundedPostcodeTries[k][3])
    ELSE BoundedPostcodeTry(t, i, k + 1)

RECURSIVE BoundedPostcodeFrom(_, _)
\* t.match(...)[1]: the leftmost match at or after i, "" for none
BoundedPostcodeFrom(t, i) ==
    IF i > Len(t) THEN ""
    ELSE IF WordBoundary(t, i) /\ BoundedPostcodeTry(t, i, 1) > 0
    THEN SubSeq(t, i, BoundedPostcodeTry(t, i, 1))
    ELSE BoundedPostcodeFrom(t, i + 1)

parseUkPostcode(text) ==
    ReplaceFirstSpaces(BoundedPostcodeFrom(normalizeSpaces(toUpperCase(text)), 1))

\* null is NoNumber; the visits per week in quarters
frequencyToPerWeek(text) ==
    IF includesAny(text, {"every other week", "once every two weeks", "fortnightly", "bi-weekly",
                          "alternate weeks"}) THEN 2
    ELSE IF includesAny(text, {"once a month", "monthly", "every month", "one visit a month"}) THEN 1
    ELSE IF includesAny(text, {"once a week", "weekly", "every week", "one day a week"}) THEN 4
    ELSE IF includesAny(text, {"twice a week", "two times a week"}) THEN 8
    ELSE IF includesAny(text, {"three times a week"}) THEN 12
    ELSE IF includesAny(text, {"every weekday", "monday to friday", "mon to fri"}) THEN 20
    ELSE IF includesAny(text, {"daily including weekends", "every day"}) THEN 28
    ELSE IF includesAny(text, {"times a week", "visits a week", "per week"})
            /\ parseNumber(text) # NoNumber
    THEN parseNumber(text)
    ELSE NoNumber

normalizeDomesticProperty(text) ==
    IF includesAny(text, {"studio"}) THEN "Studio flat"
    ELSE IF includesAny(text, {"flat", "apartment"}) THEN "Flat"
    ELSE IF includesAny(text, {"terrace", "terraced"}) THEN "Terraced house"
    ELSE IF includesAny(text, {"semi", "semi detached", "semi-detached"}) THEN "Semi-detached house"
    ELSE IF includesAny(text, {"detached"}) THEN "Detached house"
    ELSE ""

normalizeCommercialProperty(text) ==
    IF includesAny(text, {"office"}) THEN "Office"
    ELSE IF includesAny(text, {"school"}) THEN "School"
    ELSE IF includesAny(text, {"clinic", "medical"}) THEN "Medical clinic"
    ELSE IF includesAny(text, {"warehouse"}) THEN "Warehouse"
    ELSE IF includesAny(text, {"commercial kitchen", "kitchen"}) THEN "Commercial kitchen"
    ELSE IF includesAny(text, {"retail", "shop", "store"}) THEN "Retail shop"
    ELSE IF includesAny(text, {"nursery", "daycare", "day care"}) THEN "Nursery (daycare)"
    ELSE IF includesAny(text, {"gym"}) THEN "Gym"
    ELSE IF includesAny(text, {"workshop", "industrial"}) THEN "Industrial workshop"
    ELSE IF includesAny(text, {"venue", "event"}) THEN "Event venue"
    ELSE ""

normalizeService(text, category) ==
    IF includesAny(text, {"end of tenancy", "move out", "move-out"}) THEN "End of Tenancy Clean"
    ELSE IF includesAny(text, {"deep"}) THEN "Deep Clean"
    ELSE IF includesAny(text, {"post construction", "after builders", "after-builders", "builders",
                               "post-construction"}) THEN "Post-construction Clean"
    ELSE IF includesAny(text, {"disinfection", "sanitisation", "sanitization"})
    THEN "Disinfection / Sanitisation"
    ELSE IF includesAny(text, {"regular", "weekly", "fortnightly", "monthly", "recurring", "ongoing",
                               "standard", "maintenance"})
    THEN IF category = "commercial" THEN "Regular Commercial Cleaning" ELSE "Regular Cleaning"
    ELSE ""

\* the map of detectExtras
SecondExtrasMap ==
    << <<"oven", "Oven cleaning">>, <<"carpet", "Carpet cleaning">>,
       <<"upholstery", "Upholstery cleaning">>, <<"sofa", "Upholstery cleaning">>,
       <<"inside windows", "Inside windows">>, <<"internal windows", "Inside windows">>,
       <<"windows inside", "Inside windows">>, <<"limescale", "Limescale removal">>,
       <<"toilet", "Deep toilet clean">>, <<"fridge", "Fridge / freezer cleaning">>,
       <<"freezer", "Fridge / freezer cleaning">>, <<"cabinet", "Internal cabinet cleaning">>,
       <<"cupboard", "Internal cabinet cleaning">>, <<"blinds", "Blinds dusting">>,
       <<"walls", "Wall spot cleaning">>, <<"pet hair", "Pet hair removal">>,
       <<"mould", "Mold spot treatment">>, <<"mold", "Mold spot treatment">>,
       <<"mattress", "Mattress steam clean">>, <<"extractor", "Degreasing extractor fans">>,
       <<"degrease", "Degreasing extractor fans">> >>

RECURSIVE detectExtrasFrom(_, _, _)
\* the loop of detectExtras from row i on, with the names found so far
detectExtrasFrom(t, i, found) ==
    IF i > Len(SecondExtrasMap) THEN found
    ELSE IF includes(t, SecondExtrasMap[i][1])
            /\ \A j \in DOMAIN found : found[j] # SecondExtrasMap[i][2]
    THEN detectExtrasFrom(t, i + 1, Append(found, SecondExtrasMap[i][2]))
    ELSE detectExtrasFrom(t, i + 1, found)

detectExtras(text) == detectExtrasFrom(toLowerCase(text), 1, <<>>)

\* Math.ceil of a number held in quarters
ceil(n) == 4 * ((n + 3) \div 4)

\* hours in quarters; the counts are held in quarters, so rooms * 0.75 is
\* (3 * rooms) / 4
estimateHoursFallback(category, bedrooms, bathrooms, toilets, kitchens) ==
    maxHours(IF category = "commercial" THEN 12 ELSE 8,
             ceil((3 * (bedrooms + bathrooms + toilets + kitchens)) \div 4))

\* everything the handler reads from the utterance
secondHear(speech) ==
    [ category |-> categoryOfSpeech(speech),
      domesticService |-> normalizeService(speech, "domestic"),
      commercialService |-> normalizeService(speech, "commercial"),
      oneTime |-> includesAny(speech, {"one off", "one-off", "one time", "one-time", "once", "just once"}),
      regular |-> includesAny(speech, {"ongoing", "regular", "weekly", "monthly", "fortnight",
                                       "bi-week", "recurring"}),
      domesticProperty |-> normalizeDomesticProperty(speech),
      commercialProperty |-> normalizeCommercialProperty(speech),
      postcode |-> parseUkPostcode(speech),
      yesNo |-> parseYesNo(speech),
      number |-> parseNumber(speech),
      notSure |-> includesAny(speech, {"not sure", "no idea", "you decide", "estimate"}),
      frequency |-> frequencyToPerWeek(speech),
      noExtras |-> includesAny(speech, {"no extras", "no", "none", "nothing"}),
      extras |-> detectExtras(speech) ]

\* ------------------------------------------------------------------------
\* src/server.js, second server: the session and the handlers
\* ------------------------------------------------------------------------

\* the sentences given to sayGather and twiml.say (typographic apostrophes
\* written as ')
SecondPrompt ==
    [ greeting |-> "Hi, you're through to TotalSpark Solutions. Is the cleaning for a home or for a business premises?",
      no_input |-> "Sorry, I didn't catch that. Is the cleaning for a home or for a business premises?",
      category_retry |-> "No problem. Is the cleaning for a home, like a flat or house, or for a business premises, like an office or shop?",
      commercial_service |-> "Thanks. What type of commercial cleaning do you need. Regular commercial cleaning, deep clean, post-construction, or disinfection?",
      domestic_service |-> "Thanks. What type of domestic cleaning do you need. End of tenancy, deep clean, regular cleaning, post-construction, or disinfection?",
      service_retry |-> "Which one would it be. End of tenancy, deep clean, regular cleaning, post-construction, or disinfection?",
      commercial_job |-> "Is this a one-time clean or an ongoing service?",
      domestic_job |-> "Is this a one-off clean or ongoing regular visits?",
      job_retry |-> "Just to confirm, is it a one-time clean, or ongoing regular visits?",
      domestic_property |-> "Thanks. What type of property is it. For example flat, studio flat, terraced house, semi-detached, or detached?",
      commercial_property |-> "Thanks. What type of business premises is it. For example office, shop, warehouse, school, clinic, or gym?",
      domestic_property_retry |-> "Sorry, I didn't catch the property type. Is it a flat, studio flat, terraced, semi-detached, or detached?",
      commercial_property_retry |-> "Sorry, I didn't catch the premises type. Is it an office, shop, warehouse, school, clinic, or gym?",
      postcode |-> "Thanks. What's the postcode?",
      postcode_retry |-> "Could you share the postcode, please?",
      bedrooms |-> "How many bedrooms is it?",
      bedrooms_retry |-> "How many bedrooms would that be?",
      bathrooms |-> "And how many bathrooms?",
      bathrooms_retry |-> "How many bathrooms would that be?",
      toilets |-> "Any toilets separate from the bathrooms?",
      toilets_retry |-> "How many separate toilets would that be? If none, say zero.",
      rooms |-> "Roughly how many rooms is it, or what's the size if it's a large open space?",
      commercial_toilets |-> "How many toilets are there?",
      commercial_toilets_retry |-> "How many toilets would that be? If none, say zero.",
      kitchens |-> "Any kitchens on site?",
      hours |-> "How many hours per visit were you expecting?",
      hours_or_estimate |-> "How many hours per visit were you expecting? If you're not sure, say not sure and I'll estimate.",
      hours_retry |-> "How many hours would you like per visit? If you're not sure, say not sure.",
      frequency |-> "How many visits per week would that be?",
      frequency_confirm |-> "Just to confirm, how many visits per week would that be?",
      frequency_retry |-> "Just to confirm, how many visits per week would that be? For example 1 for weekly, 0.5 for fortnightly, or 2 for twice a week.",
      extras |-> "Any extras you want to add, like oven, carpets, upholstery, or inside windows? If none, say no extras.",
      no_extras |-> "Alright. I'll repeat the key details and then price it. Is that okay?",
      extras_retry |-> "No problem. Any extras at all, or should I price it with no extras?",
      first_quantity |-> "Got it. Just so you know, adding extras increases the time and the price. How many of that extra do you need?",
      confirm |-> "Thanks. I'll repeat the key details and then price it. Is that okay?",
      change |-> "No problem. What would you like to change?",
      quote_fail |-> "I couldn't pull the quote through right now. Let's try again. What's the postcode?",
      reprice |-> "Thanks. I'll re-price it with that change. Is that okay?",
      later |-> "No worries. If you want to book later, you can call us back anytime. Thanks.",
      book_retry |-> "Do you want me to book that in for you?",
      full_name |-> "Perfect. What's your full name?",
      phone |-> "And the best phone number for you?",
      email |-> "What's your email address?",
      address |-> "What's the address for the clean? If you prefer, postcode is fine.",
      date |-> "What date would you like?",
      time |-> "And what time works for you?",
      booked |-> "All sorted. You're booked in. We'll be in touch if we need anything else. Thanks.",
      booking_fail |-> "I couldn't confirm that booking right now. Let's try again. What date would you like?",
      lost |-> "Sorry, I lost my place for a second. Is the cleaning for a home or for a business premises?" ]

\* the session getState creates
secondGetState ==
    [ stage |-> "need_category",
      data |-> [ service_category |-> "", domestic_service_type |-> "", commercial_service_type |-> "",
                 domestic_property_type |-> "", commercial_property_type |-> "", job_type |-> "",
                 bedrooms |-> 0, bathrooms |-> 0, toilets |-> 0, kitchens |-> 0, postcode |-> "",
                 preferred_hours |-> 0, visit_frequency_per_week |-> 0, areas_scope |-> "",
                 extras |-> <<>>, notes |-> "", quote |-> NoQuote, booking |-> emptyBooking ],
      temp |-> [extras_queue |-> <<>>, current_extra |-> ""] ]

\* app.post("/call/start") of the second server: the session after the request
secondCallStart(st) ==
    [st EXCEPT !.stage = "need_category", !.data.quote = NoQuote,
               !.temp = [extras_queue |-> <<>>, current_extra |-> ""]]

\* the sentences as sayGather speaks them
SecondSafe == [k \in DOMAIN SecondPrompt |-> enforceGbpOnlySpoken(SecondPrompt[k])]

\* the names detectExtras can return
SecondExtraNames == {SecondExtrasMap[i][2] : i \in DOMAIN SecondExtrasMap}

\* the questions of the quantity loop as sayGather speaks them
SecondQuantityRetry ==
    [name \in SecondExtraNames |->
        enforceGbpOnlySpoken("How many would that be for " \o name \o "? Please give a number.")]

SecondQuantityNext ==
    [name \in SecondExtraNames |-> enforceGbpOnlySpoken("And how many for " \o name \o "?")]

\* the response of a turn that ends in sayGather, which speaks text, the session
\* being st and the stage becoming stage
secondAsk(st, stage, text) ==
    [ st |-> [st EXCEPT !.stage = stage], spoken |-> text, quote |-> NoCall, booking |-> NoCall ]

\* lines 1189-1215
secondNeedExtras(st, h) ==
    IF h.noExtras
    THEN secondAsk([st EXCEPT !.data.extras = <<>>], "confirm_details_before_quote",
                   SecondSafe.no_extras)
    ELSE IF Len(h.extras) = 0
    THEN secondAsk(st, st.stage, SecondSafe.extras_retry)
    ELSE secondAsk([st EXCEPT !.data.extras = [i \in DOMAIN h.extras |->
                                                 [name |-> h.extras[i], quantity |-> 0]],
                              !.temp.extras_queue = Tail(h.extras),
                              !.temp.current_extra = Head(h.extras)],
                   "need_extra_quantity", SecondSafe.first_quantity)

\* the quantity n stored on the extra named current
setQuantity(extras, current, n) ==
    [i \in DOMAIN extras |-> IF extras[i].name = current THEN [extras[i] EXCEPT !.quantity = n]
                                                         ELSE extras[i]]

\* the quantity loop that asks the last extra of the queue next
secondNeedExtraQuantityLast(st, h) ==
    IF st.temp.current_extra = ""
    THEN secondAsk(st, "confirm_details_before_quote", SecondSafe.confirm)
    ELSE IF h.number = NoNumber
    THEN secondAsk(st, st.stage,
                   SecondQuantityRetry[st.temp.current_extra])
    ELSE IF Len(st.temp.extras_queue) > 0
    THEN secondAsk([st EXCEPT !.data.extras = setQuantity(@, st.temp.current_extra, h.number),
                              !.temp.current_extra = st.temp.extras_queue[Len(st.temp.extras_queue)],
                              !.temp.extras_queue = SubSeq(@, 1, Len(@) - 1)],
                   st.stage,
                   SecondQuantityNext[st.temp.extras_queue[Len(st.temp.extras_queue)]])
    ELSE secondAsk([st EXCEPT !.data.extras = setQuantity(@, st.temp.current_extra, h.number),
                              !.temp.current_extra = ""],
                   "confirm_details_before_quote", SecondSafe.confirm)

\* lines 1217-1253; current_extra null is ""
secondNeedExtraQuantity(st, h) ==
    IF st.temp.current_extra = ""
    THEN secondAsk(st, "confirm_details_before_quote", SecondSafe.confirm)
    ELSE IF h.number = NoNumber
    THEN secondAsk(st, st.stage,
                   SecondQuantityRetry[st.temp.current_extra])
    ELSE IF Len(st.temp.extras_queue) > 0
    THEN secondAsk([st EXCEPT !.data.extras = setQuantity(@, st.temp.current_extra, h.number),
                              !.temp.current_extra = Head(st.temp.extras_queue),
                              !.temp.extras_queue = Tail(@)],
                   st.stage, SecondQuantityNext[Head(st.temp.extras_queue)])
    ELSE secondAsk([st EXCEPT !.data.extras = setQuantity(@, st.temp.current_extra, h.number),
                              !.temp.current_extra = ""],
                   "confirm_details_before_quote", SecondSafe.confirm)

\* lines 1270-1281: the hours of the payload
secondPricedHours(data) ==
    IF data.service_category = "domestic" /\ data.domestic_service_type = "Regular Cleaning"
    THEN secondApplyMinimumHours("domestic",
                                 IF data.job_type # "" THEN data.job_type ELSE "regular",
                                 data.preferred_hours, data.visit_frequency_per_week)
    ELSE IF data.service_category = "commercial"
    THEN secondApplyMinimumHours("commercial",
                                 IF data.job_type # "" THEN data.job_type ELSE "one_time",
                                 data.preferred_hours, data.visit_frequency_per_week)
    ELSE data.preferred_hours

\* what callMakeGetQuote can do: throw (ok is FALSE), or return the response's data
SecondQuoteAnswers ==
    { [ok |-> FALSE, data |-> NoQuote],
      [ok |-> TRUE, data |-> [explanation |-> "", total |-> "120"]] }

\* lines 1306-1310
secondQuoteSentence(quote) ==
    (IF quote.explanation # "" THEN quote.explanation
     ELSE "Alright. That comes to £" \o quote.total \o ". That's an estimate based on what you've told me and we confirm on arrival if anything changes. Want me to get that booked in?")
        \o " Want me to get that booked in?"

\* the catch of lines 1314-1319 that keeps the stage it was given
secondQuoteFailedStays(st) ==
    [ st |-> st, spoken |-> SecondSafe.quote_fail,
      quote |-> NoCall, booking |-> NoCall ]

\* the catch of lines 1314-1319
secondQuoteFailed(st) == secondAsk(st, "need_postcode", SecondSafe.quote_fail)

\* lines 1283-1301
secondQuotePayload(data) ==
    [ intent |-> "get_quote",
      service_category |-> data.service_category,
      domestic_service_type |-> data.domestic_service_type,
      commercial_service_type |-> data.commercial_service_type,
      domestic_property_type |-> data.domestic_property_type,
      commercial_property_type |-> data.commercial_property_type,
      job_type |-> data.job_type,
      bedrooms |-> data.bedrooms, bathrooms |-> data.bathrooms,
      toilets |-> data.toilets, kitchens |-> data.kitchens,
      postcode |-> data.postcode,
      preferred_hours |-> data.preferred_hours,
      visit_frequency_per_week |-> data.visit_frequency_per_week,
      areas_scope |-> data.areas_scope, extras |-> data.extras, notes |-> data.notes ]

\* lines 1303-1320 for the session st with the minimum hours applied, q being
\* what callMakeGetQuote does
secondGetQuote(st, q) ==
    [ (IF ~q.ok
       THEN secondQuoteFailed(st)
       ELSE secondAsk([st EXCEPT !.data.quote = q.data], "offer_booking",
                      enforceGbpOnlySpoken(enforceGbpOnlySpoken(secondQuoteSentence(q.data)))))
      EXCEPT !.quote = secondQuotePayload(st.data) ]

\* lines 1255-1320
secondConfirmDetails(st, h, q) ==
    IF h.yesNo = "no"
    THEN secondAsk(st, "free_edit_note", SecondSafe.change)
    ELSE secondGetQuote([st EXCEPT !.stage = "get_quote",
                                   !.data.preferred_hours = secondPricedHours(st.data)], q)

\* what callMakeConfirmBooking can do: return (TRUE) or throw (FALSE)
SecondBookingAnswers == {TRUE, FALSE}

\* lines 1401-1425, b being what callMakeConfirmBooking does
secondNeedTime(st, speech, b) ==
    [ st |-> [st EXCEPT !.data.booking.preferred_time = speech,
                        !.stage = IF b THEN "end" ELSE "need_date"],
      spoken |-> IF b THEN SecondPrompt.booked ELSE SecondSafe.booking_fail,
      quote |-> NoCall,
      booking |-> bookingPayload([st.data.booking EXCEPT
                                    !.preferred_time = speech,
                                    !.postcode = IF @ # "" THEN @ ELSE st.data.postcode]) ]

\* lines 1134-1176
secondNeedHours(st, h) ==
    IF ~h.notSure /\ h.number = NoNumber
    THEN secondAsk(st, st.stage, SecondSafe.hours_retry)
    ELSE secondAsk(
            IF h.notSure
            THEN [st EXCEPT !.data.preferred_hours =
                                estimateHoursFallback(st.data.service_category, st.data.bedrooms,
                                                      st.data.bathrooms, st.data.toilets,
                                                      st.data.kitchens),
                            !.data.notes = @ \o " | Hours estimated "
                                             \o numberText(estimateHoursFallback(
                                                    st.data.service_category, st.data.bedrooms,
                                                    st.data.bathrooms, st.data.toilets,
                                                    st.data.kitchens))]
            ELSE [st EXCEPT !.data.preferred_hours = h.number],
            IF (st.data.service_category = "commercial" /\ st.data.job_type = "regular")
               \/ (st.data.service_category = "domestic"
                   /\ st.data.domestic_service_type = "Regular Cleaning")
            THEN "need_frequency" ELSE "need_extras",
            IF (st.data.service_category = "commercial" /\ st.data.job_type = "regular")
               \/ (st.data.service_category = "domestic"
                   /\ st.data.domestic_service_type = "Regular Cleaning")
            THEN SecondSafe.frequency ELSE SecondSafe.extras)

\* app.post("/call/input") of the second server for the utterance speech, h being
\* what the handler reads from it: the session after the request, the sentence
\* spoken and the requests sent to the collaborators
secondCallInput(st, speech, h, q, b) ==
    IF speech = "" THEN secondAsk(st, st.stage, SecondSafe.no_input)
    ELSE CASE st.stage = "need_category" ->
            IF h.category = "" THEN secondAsk(st, st.stage, SecondSafe.category_retry)
            ELSE secondAsk([st EXCEPT !.data.service_category = h.category], "need_service_type",
                           IF h.category = "commercial" THEN SecondSafe.commercial_service
                           ELSE SecondSafe.domestic_service)
      [] st.stage = "need_service_type" ->
            IF st.data.service_category = "commercial"
            THEN IF h.commercialService = "" THEN secondAsk(st, st.stage, SecondSafe.service_retry)
                 ELSE secondAsk([st EXCEPT !.data.commercial_service_type = h.commercialService],
                                "need_job_type", SecondSafe.commercial_job)
            ELSE IF h.domesticService = "" THEN secondAsk(st, st.stage, SecondSafe.service_retry)
            ELSE IF st.data.service_category # "domestic"
            THEN secondAsk(st, IF h.domesticService = "Regular Cleaning" THEN "need_job_type"
                               ELSE "need_property_type",
                           IF h.domesticService = "Regular Cleaning" THEN SecondSafe.domestic_job
                           ELSE SecondSafe.domestic_property)
            ELSE secondAsk([st EXCEPT !.data.domestic_service_type = h.domesticService],
                           IF h.domesticService = "Regular Cleaning" THEN "need_job_type"
                           ELSE "need_property_type",
                           IF h.domesticService = "Regular Cleaning" THEN SecondSafe.domestic_job
                           ELSE SecondSafe.domestic_property)
      [] st.stage = "need_job_type" ->
            IF ~h.oneTime /\ ~h.regular /\ st.data.job_type = ""
            THEN secondAsk(st, st.stage, SecondSafe.job_retry)
            ELSE secondAsk([st EXCEPT !.data.job_type = IF h.regular THEN "regular"
                                                        ELSE IF h.oneTime THEN "one_time" ELSE @],
                           "need_property_type",
                           IF st.data.service_category = "commercial"
                           THEN SecondSafe.commercial_property ELSE SecondSafe.domestic_property)
      [] st.stage = "need_property_type" ->
            IF st.data.service_category = "domestic"
            THEN IF h.domesticProperty = ""
                 THEN secondAsk(st, st.stage, SecondSafe.domestic_property_retry)
                 ELSE secondAsk([st EXCEPT !.data.domestic_property_type = h.domesticProperty],
                                "need_postcode", SecondSafe.postcode)
            ELSE IF h.commercialProperty = ""
                 THEN secondAsk(st, st.stage, SecondSafe.commercial_property_retry)
                 ELSE secondAsk([st EXCEPT !.data.commercial_property_type = h.commercialProperty],
                                "need_postcode", SecondSafe.postcode)
      [] st.stage = "need_postcode" ->
            IF h.postcode = "" THEN secondAsk(st, st.stage, SecondSafe.postcode_retry)
            ELSE IF st.data.service_category = "domestic"
            THEN secondAsk([st EXCEPT !.data.postcode = h.postcode], "need_bedrooms",
                           SecondSafe.bedrooms)
            ELSE secondAsk([st EXCEPT !.data.postcode = h.postcode], "need_rooms_or_size",
                           SecondSafe.rooms)
      [] st.stage = "need_bedrooms" ->
            IF h.number = NoNumber THEN secondAsk(st, st.stage, SecondSafe.bedrooms_retry)
            ELSE secondAsk([st EXCEPT !.data.bedrooms = h.number], "need_bathrooms",
                           SecondSafe.bathrooms)
      [] st.stage = "need_bathrooms" ->
            IF h.number = NoNumber THEN secondAsk(st, st.stage, SecondSafe.bathrooms_retry)
            ELSE IF st.data.domestic_service_type = ""
            THEN secondAsk([st EXCEPT !.data.bathrooms = h.number], "need_extras", SecondSafe.extras)
            ELSE IF st.data.domestic_service_type # "Regular Cleaning"
            THEN secondAsk([st EXCEPT !.data.bathrooms = h.number], "need_toilets",
                           SecondSafe.toilets)
            ELSE secondAsk([st EXCEPT !.data.bathrooms = h.number], "need_hours", SecondSafe.hours)
      [] st.stage = "need_toilets" ->
            IF h.yesNo = "no"
            THEN secondAsk([st EXCEPT !.data.toilets = 0], "need_extras", SecondSafe.extras)
            ELSE IF h.number # NoNumber
            THEN secondAsk([st EXCEPT !.data.toilets = h.number], "need_extras", SecondSafe.extras)
            ELSE secondAsk(st, st.stage, SecondSafe.toilets_retry)
      [] st.stage = "need_rooms_or_size" ->
            secondAsk([st EXCEPT !.data.notes = "Size/rooms: " \o speech], "need_toilets_commercial",
                      SecondSafe.commercial_toilets)
      [] st.stage = "need_toilets_commercial" ->
            IF h.number = NoNumber THEN secondAsk(st, st.stage, SecondSafe.commercial_toilets_retry)
            ELSE secondAsk([st EXCEPT !.data.toilets = h.number], "need_kitchens_commercial",
                           SecondSafe.kitchens)
      [] st.stage = "need_kitchens_commercial" ->
            secondAsk([st EXCEPT !.data.kitchens = IF h.yesNo = "no" THEN 0
                                                   ELSE IF h.number # NoNumber THEN h.number ELSE 4,
                                 !.data.notes = IF h.yesNo = "" /\ h.number = NoNumber
                                                THEN @ \o " | Kitchens assumed 1" ELSE @],
                      "need_hours", SecondSafe.hours_or_estimate)
      [] st.stage = "need_hours" -> secondNeedHours(st, h)
      [] st.stage = "need_frequency" ->
            IF h.frequency = NoNumber
            THEN secondAsk(st, st.stage,
                           IF includesAny(speech, {"regularly", "ongoing", "as needed", "now and then",
                                                   "occasionally"})
                           THEN SecondSafe.frequency_confirm ELSE SecondSafe.frequency_retry)
            ELSE secondAsk([st EXCEPT !.data.visit_frequency_per_week = h.frequency], "need_extras",
                           SecondSafe.extras)
      [] st.stage = "need_extras" -> secondNeedExtras(st, h)
      [] st.stage = "need_extra_quantity" -> secondNeedExtraQuantity(st, h)
      [] st.stage = "confirm_details_before_quote" -> secondConfirmDetails(st, h, q)
      [] st.stage = "free_edit_note" ->
            secondAsk([st EXCEPT !.data.notes = @ \o " | Caller change request: " \o speech],
                      "confirm_details_before_quote", SecondSafe.reprice)
      [] st.stage = "offer_booking" ->
            IF h.yesNo = "no"
            THEN secondAsk(st, "end", SecondPrompt.later)
            ELSE IF h.yesNo # "yes" THEN secondAsk(st, st.stage, SecondSafe.book_retry)
            ELSE secondAsk(st, "need_full_name", SecondSafe.full_name)
      [] st.stage = "need_full_name" ->
            secondAsk([st EXCEPT !.data.booking.full_name = speech], "need_phone", SecondSafe.phone)
      [] st.stage = "need_phone" ->
            secondAsk([st EXCEPT !.data.booking.phone = speech], "need_email", SecondSafe.email)
      [] st.stage = "need_email" ->
            secondAsk([st EXCEPT !.data.booking.email = speech], "need_address", SecondSafe.address)
      [] st.stage = "need_address" ->
            secondAsk([st EXCEPT !.data.booking.address = speech,
                                 !.data.booking.postcode = IF h.postcode # "" THEN h.postcode
                                                           ELSE st.data.postcode],
                      "need_date", SecondSafe.date)
      [] st.stage = "need_date" ->
            secondAsk([st EXCEPT !.data.booking.preferred_date = speech], "need_time",
                      SecondSafe.time)
      [] st.stage = "need_time" -> secondNeedTime(st, speech, b)
      [] OTHER -> secondAsk(st, "need_category", SecondSafe.lost)

\* ------------------------------------------------------------------------
\* Utterances given to the decoder
\* ------------------------------------------------------------------------

\* number of letters the spelled postcodes are built from
NumPcLetters == 2

\* longest arbitrary utterance, in words
MaxWords == 3

PcLetterOrder == "AWSXUO"

PcLetters == {CharAt(PcLetterOrder, i) : i \in 1..NumPcLetters}

PcDigits == {"1", "0"}

Outwards ==
    {a \o b \o d \o o : a \in PcLetters, b \in PcLetters \cup {""}, d \in PcDigits,
                        o \in PcLetters \cup PcDigits \cup {""}}

Inwards == {d \o a \o b : d \in PcDigits, a \in PcLetters, b \in PcLetters}

\* the postcodes callers spell: every one of the shape over the letters and
\* digits above, and the example SW1A 1AA
SpelledPostcodes == (Outwards \X Inwards) \cup {<<"SW1A", "1AA">>}

\* how a caller says a postcode
Forms == {"letters", "nato", "doubleu", "compact", "phonetic"}

ExampleWord(l) ==
    CASE l = "S" -> "Sun" [] l = "W" -> "Winter" [] l = "A" -> "Apple"
      [] l = "X" -> "Xylophone" [] l = "U" -> "Umbrella" [] OTHER -> "Orange"

\* the spelling-alphabet word a caller says for a letter
NatoWord(l) ==
    CASE l = "S" -> "sierra" [] l = "W" -> "whiskey" [] l = "A" -> "alpha"
      [] l = "X" -> "xray" [] l = "U" -> "uniform" [] OTHER -> "oscar"

\* the word a caller says for a digit
DigitWord(d) == IF d = "0" THEN "zero" ELSE "one"

RECURSIVE SayEach(_, _, _)
\* the symbols of compact from position i on, each said in the given form
SayEach(compact, form, i) ==
    IF i > Len(compact) THEN <<>>
    ELSE LET c == CharAt(compact, i)
             said == CASE form = "letters" -> c
                       [] form = "nato" -> IF IsDigit(c) THEN DigitWord(c) ELSE NatoWord(c)
                       [] form = "doubleu" -> IF c = "W" THEN "double u" ELSE LowerChar(c)
                       [] form = "phonetic" ->
                            IF IsDigit(c) \/ i > 2 THEN c
                            ELSE IF i = 1 THEN c \o " for " \o ExampleWord(c)
                            ELSE c \o " as in " \o ExampleWord(c)
         IN  <<said>> \o SayEach(compact, form, i + 1)

Spoken(outward, inward, form) ==
    IF form = "compact" THEN outward \o " " \o inward
    ELSE join(SayEach(outward \o inward, form, 1), IF form = "phonetic" THEN ", " ELSE " ")

ArbWords == {"sw1a", "1aa", "a", "one", "double", "u", "postcode", "S,"}

RECURSIVE WordSeqs(_)
WordSeqs(n) == IF n = 0 THEN {<<>>} ELSE {Append(ws, w) : ws \in WordSeqs(n - 1), w \in ArbWords}

ArbTexts == {join(ws, " ") : ws \in UNION {WordSeqs(n) : n \in 0..MaxWords}} \cup {"   ", " "}

\* ------------------------------------------------------------------------
\* src/unnamed/part_000 with several calls: the Map callState and the handlers
\* suspended at await callMakeGetQuote
\* ------------------------------------------------------------------------

\* the values of req.body.CallSid
CallSids == {"CA1", "CA2"}

\* callState.has(callSid) is false
NoSession == [none |-> TRUE]

\* a server that has had no request: an empty Map, no handler suspended
emptyWorld ==
    [ sessions |-> [c \in CallSids |-> NoSession], inFlight |-> <<>>,
      spoken |-> [c \in CallSids |-> <<>>] ]

\* ensureState(callSid) on the Map
ensureStateFor(map, sid) ==
    IF map[sid] = NoSession THEN [map EXCEPT ![sid] = ensureState] ELSE map

\* a Map that keeps one session for every call
callStateSetAll(map, sid, st) == [c \in DOMAIN map |-> st]

\* callState.set(callSid, state), and the writes to the object callState.get(callSid)
callStateSet(map, sid, st) == [map EXCEPT ![sid] = st]

\* app.post("/call/start") with CallSid sid
sessionsStart(w, sid) ==
    [w EXCEPT !.sessions = callStateSet(ensureStateFor(@, sid), sid,
                                        callStart(ensureStateFor(@, sid)[sid])),
              !.spoken = [@ EXCEPT ![sid] = <<Safe.greeting>>]]

\* the server after the handler of /call/input got as far as r: to its response,
\* or to await callMakeGetQuote
sessionsInputResult(w, sid, r) ==
    IF r.quote # NoCall
    THEN [w EXCEPT !.sessions = callStateSet(ensureStateFor(@, sid), sid, r.st),
                   !.inFlight = Append(@, [sid |-> sid, pre |-> r.spoken, payload |-> r.quote])]
    ELSE [w EXCEPT !.sessions = callStateSet(ensureStateFor(@, sid), sid, r.st),
                   !.spoken = [@ EXCEPT ![sid] = r.spoken]]

\* a sequence without its element i
removeAt(seq, i) == SubSeq(seq, 1, i - 1) \o SubSeq(seq, i + 1, Len(seq))

\* the server after the suspended handler p went on with answer r of lines 768-804
sessionsResumed(w, i, sid, r) ==
    [w EXCEPT !.sessions = callStateSet(@, sid, r.st),
              !.inFlight = removeAt(@, i),
              !.spoken = [@ EXCEPT ![sid] = r.spoken]]

\* callMakeGetQuote returns q to the suspended handler i, which goes on with the
\* object callState.get(callSid) as it is then
sessionsQuoteReturn(w, i, q) ==
    sessionsResumed(w, i, w.inFlight[i].sid,
                    submitQuote(w.sessions[w.inFlight[i].sid], w.inFlight[i].pre,
                                w.inFlight[i].payload, q))

VARIABLES
    pcKind, pcCanon, pcForm, pcText, pcResult,      \* the decoder's input and result
    s1, s1Event, s1Speech, s1Ai, s1Spoken,          \* the first server's call
    state,              \* part_000: callState.get(callSid), the session of the call
    lastRequest,        \* "none", "start" or "input": the request handled last
    spoken,             \* the texts handed to say and sayGather in that request
    quoteSent,          \* the payload sent to the pricing collaborator in it, or NoCall
    quoteAnswer,        \* what the pricing collaborator returned then, or NoCall
    bookingSent,        \* the payload sent to the booking collaborator in it, or NoCall
    bookingAnswer,      \* what the booking collaborator returned then (ok), FALSE for no call
    answered,           \* the extras of the draft whose quantity the caller has given
    failedBooking,      \* the retained fields of the last booking refused since /call/start, or NoCall
    booked,             \* the booking collaborator has reported success since /call/start
    impactSpoken,       \* how often the extras impact sentence was spoken since /call/start
    extrasDetected,     \* detectExtrasMention has found an extra since /call/start
    detectedNow,        \* detectExtrasMention found an extra in that request
    heardNumber,        \* extractNumber of the utterance of that request, or NoNumber
    utterance,          \* SpeechResult of that request, "" for /call/start
    scripted,           \* how many utterances of Script the call has consisted of so far,
                        \* 0 once it has departed from Script
    postcodeFailures,   \* consecutive non-empty utterances without a postcode heard
                        \* in a postcode stage
    fnName,             \* the function applied last to an input of its own, or "none"
    freqText, freqPhrase, freqResult,   \* frequencyFromSpeech: utterance, its phrase, result
    draftIn, draftOnce, draftTwice,     \* applyMinimumHours: a draft, applied once, twice
    secondOnce, secondTwice,            \* the second server's applyMinimumHours on that draft
    second,             \* second server: callState.get(callSid), the session of the call
    secondRequest,      \* "none", "start" or "input": the request it handled last
    secondSpoken,       \* the sentence spoken in that request
    secondQuoteSent,    \* the payload given to callMakeGetQuote in it, or NoCall
    secondQuoteOk,      \* callMakeGetQuote was called in it and returned
    secondBookingSent,  \* the payload given to callMakeConfirmBooking in it, or NoCall
    secondNumber,       \* parseNumber of the utterance of that request, or NoNumber
    secondMentioned,    \* detectExtras of the need_extras utterance being quantified
    secondAnswered,     \* the extras of it that a numeric answer was stored on
    secondRestarts,     \* how often the dialogue was taken back: by /call/start, by the
                        \* fallback of /call/input and by a failure of callMakeGetQuote
    world,              \* part_000 with several calls: callState, the handlers suspended
                        \* at await callMakeGetQuote, and the last response to each call
    alone               \* for each call, the same of a server that gets its requests only

varsDecoder == <<pcKind, pcCanon, pcForm, pcText, pcResult>>

varsFirst == <<s1, s1Event, s1Speech, s1Ai, s1Spoken>>

varsCall ==
    <<state, lastRequest, spoken, quoteSent, quoteAnswer, bookingSent, bookingAnswer, answered,
      failedBooking, booked, impactSpoken, extrasDetected, detectedNow, heardNumber,
      utterance, scripted, postcodeFailures>>

varsFn ==
    <<fnName, freqText, freqPhrase, freqResult, draftIn, draftOnce, draftTwice, secondOnce,
      secondTwice>>

varsSecond ==
    <<second, secondRequest, secondSpoken, secondQuoteSent, secondQuoteOk, secondBookingSent,
      secondNumber, secondMentioned, secondAnswered, secondRestarts>>

varsSessions == <<world, alone>>

vars == <<varsDecoder, varsFirst, varsCall, varsFn, varsSecond, varsSessions>>

\* what the actions of one part leave alone
notDecoder == <<varsFirst, varsCall, varsFn, varsSecond, varsSessions>>

notFirst == <<varsDecoder, varsCall, varsFn, varsSecond, varsSessions>>

notCall == <<varsDecoder, varsFirst, varsFn, varsSecond, varsSessions>>

notFn == <<varsDecoder, varsFirst, varsCall, varsSecond, varsSessions>>

notSecond == <<varsDecoder, varsFirst, varsCall, varsFn, varsSessions>>

notSessions == <<varsDecoder, varsFirst, varsCall, varsFn, varsSecond>>

\* no text decoded yet; stateByCallSid holds no session, so that /call/input
\* works on initState(); callState holds no session, so that ensureState creates it
Init ==
    /\ pcKind = "none"
    /\ pcCanon = ""
    /\ pcForm = ""
    /\ pcText = ""
    /\ pcResult = NoMatch
    /\ s1 = initState
    /\ second = secondGetState
    /\ secondRequest = "none"
    /\ secondSpoken = ""
    /\ secondQuoteSent = NoCall
    /\ secondQuoteOk = FALSE
    /\ secondBookingSent = NoCall
    /\ secondNumber = NoNumber
    /\ secondMentioned = <<>>
    /\ secondAnswered = {}
    /\ secondRestarts = 0
    /\ world = emptyWorld
    /\ alone = [c \in CallSids |-> emptyWorld]
    /\ s1Event = "none"
    /\ s1Speech = ""
    /\ s1Ai = NoAi
    /\ s1Spoken = ""
    /\ state = ensureState
    /\ lastRequest = "none"
    /\ spoken = <<>>
    /\ quoteSent = NoCall
    /\ quoteAnswer = NoCall
    /\ bookingSent = NoCall
    /\ bookingAnswer = FALSE
    /\ answered = {}
    /\ failedBooking = NoCall
    /\ booked = FALSE
    /\ impactSpoken = 0
    /\ extrasDetected = FALSE
    /\ detectedNow = FALSE
    /\ heardNumber = NoNumber
    /\ utterance = ""
    /\ scripted = 0
    /\ postcodeFailures = 0
    /\ fnName = "none"
    /\ freqText = ""
    /\ freqPhrase = ""
    /\ freqResult = NoNumber
    /\ draftIn = emptyData
    /\ draftOnce = emptyData
    /\ draftTwice = emptyData
    /\ secondOnce = 0
    /\ secondTwice = 0

\* a caller spells a postcode of the UK shape in one of the forms
DecodeSpelled ==
    /\ pcKind = "none"
    /\ \E pc \in SpelledPostcodes, f \in Forms :
        /\ pcKind' = "spelled"
        /\ pcCanon' = pc[1] \o " " \o pc[2]
        /\ pcForm' = f
        /\ pcText' = Spoken(pc[1], pc[2], f)
        /\ pcResult' = extractUkPostcode(Spoken(pc[1], pc[2], f))
    /\ UNCHANGED notDecoder

\* a caller says any words
DecodeArbitrary ==
    /\ pcKind = "none"
    /\ \E t \in ArbTexts :
        /\ pcKind' = "arbitrary"
        /\ pcCanon' = ""
        /\ pcForm' = ""
        /\ pcText' = t
        /\ pcResult' = extractUkPostcode(t)
    /\ UNCHANGED notDecoder

\* ------------------------------------------------------------------------
\* The first server of src/server.js, one call
\* ------------------------------------------------------------------------

\* what the extraction service may return for the current quote: objects that
\* GetQuoteSchema accepts
AiProposals(q) ==
    { [q EXCEPT !.postcode = "EC1A 1BB"],
      [q EXCEPT !.domestic_service_type = "Deep Clean"],
      [q EXCEPT !.service_category = "commercial", !.commercial_service_type = "Deep Clean"] }

\* app.post("/call/start") of the first server
FirstCallStart ==
    /\ s1' = initState
    /\ s1Event' = "start"
    /\ s1Speech' = ""
    /\ s1Ai' = NoAi
    /\ s1Spoken' = FirstSafe.greeting
    /\ UNCHANGED notFirst

\* app.post("/call/input") of the first server
FirstCallInput ==
    \E raw \in FirstUtterances :
        \E ai \in IF FirstSaid[raw] = "" THEN {NoAi} ELSE {NoAi} \cup AiProposals(s1.quote) :
            LET r == firstCallInput(s1, FirstSaid[raw], ai)
            IN  /\ s1' = r.st
                /\ s1Event' = "input"
                /\ s1Speech' = FirstSaid[raw]
                /\ s1Ai' = ai
                /\ s1Spoken' = r.spoken
                /\ UNCHANGED notFirst

\* ------------------------------------------------------------------------
\* The handlers of src/unnamed/part_000, one call identifier
\* ------------------------------------------------------------------------

\* most failures the counter postcodeFailures tells apart
MaxPostcodeFailures == 3

\* what callers say whatever the question was
Interjections ==
    {"", "how much in dollars", "kitchen", "yes and  the oven", "plumbing repair", " sorry what "}

\* what callers answer to the question of a stage; the stages that take the
\* utterance as it is (names, dates, sizes) get one answer or silence
Answers ==
    [ start |-> {"a flat", "the office", "it's a house"},
      need_category |-> {"a flat", "the office", "it's a house"},
      need_domestic_service_type |-> {"regular cleaning", "deep clean"},
      need_domestic_property_type |-> {"a flat", "semi detached", "semi", "house", "maisonette"},
      confirm_domestic_property_type |-> {"yes", "yes, semi-detached"},
      need_domestic_postcode |-> {"E2 8AA", "S W 1 A 1 A A"},
      need_domestic_bedrooms |-> {"2"},
      need_domestic_bathrooms |-> {"2"},
      need_domestic_toilets |-> {"2"},
      need_domestic_job_type |-> {"one off", "regular cleaning"},
      need_domestic_hours |-> {"2", "0 per week"},
      need_domestic_frequency |-> {"weekly", "0 per week"},
      ask_extras_domestic_optional |-> {"no extras", "2.5", "0", "yes"},
      need_commercial_service_type |-> {"deep clean"},
      need_commercial_job_type |-> {"one off", "regular cleaning"},
      need_commercial_property_type |-> {"the office"},
      need_commercial_rooms_or_area |-> {"about ten rooms"},
      need_commercial_toilets |-> {"2"},
      need_commercial_kitchens |-> {"2"},
      need_commercial_postcode |-> {"E28AA"},
      need_commercial_hours |-> {"2", "6", "0 per week"},
      need_commercial_frequency |-> {"weekly", "3 times a week", "0 per week"},
      ask_extras_commercial_optional |-> {"no extras", "2.5", "0", "yes"},
      post_quote_booking_decision |-> {"yes", "no extras"},
      offer_followup |-> {"yes"},
      need_booking_name |-> {"Ann Lee"},
      need_booking_phone |-> {"07700 900123"},
      need_booking_email |-> {"ann@example.com"},
      need_booking_address |-> {"1 High Street"},
      need_booking_date |-> {"monday"},
      need_booking_time |-> {"10am"} ]

\* a call of five utterances: a house, a deep clean, a semi, its confirmation, and
\* a postcode said letter by letter
Script == <<"it's a house", "deep clean", "semi", "yes, semi-detached", "S W 1 A 1 A A">>

\* the position in Script after utterance raw; a call is fresh before its first
\* utterance
followScript(n, last, raw) ==
    IF n < Len(Script) /\ (n > 0 \/ last # "input") /\ raw = Script[n + 1] THEN n + 1 ELSE 0

FreeTextStages ==
    {"need_commercial_rooms_or_area", "need_booking_name", "need_booking_phone",
     "need_booking_email", "need_booking_address", "need_booking_date", "need_booking_time"}

Utterances == Interjections \cup UNION {Answers[k] : k \in DOMAIN Answers}

\* normalizeSpaces(req.body.SpeechResult || "") of each utterance
Said == [u \in Utterances |-> normalizeSpaces(u)]

\* hear of each utterance as the handler has it, evaluated once
Heard == [u \in Utterances |-> hear(Said[u])]

\* the utterances offered in a stage
Says(stage) == IF stage \in FreeTextStages THEN Answers[stage] \cup {""}
               ELSE Answers[stage] \cup Interjections

PostcodeStages == {"need_domestic_postcode", "need_commercial_postcode"}

\* the number of consecutive requests in a postcode stage whose utterance was not
\* empty, gave no postcode, and was answered by the postcode question again
countPostcodeFailures(n, stage, speech, postcode, texts) ==
    IF speech = "" THEN n
    ELSE IF stage \in PostcodeStages /\ postcode = "" /\ texts[Len(texts)] = Safe.postcode_retry
    THEN (IF n < MaxPostcodeFailures THEN n + 1 ELSE n)
    ELSE 0

\* the fields of a booking that lines 887-891 do not ask for again
retainedFields(booking) ==
    [full_name |-> booking.full_name, phone |-> booking.phone, email |-> booking.email,
     address |-> booking.address, postcode |-> booking.postcode]

\* most utterances of the extras impact sentence the counter impactSpoken tells apart
MaxImpactSpoken == 2

\* the counter of the extras impact sentence after a request that spoke texts
countImpactSpoken(n, texts) ==
    IF n + Cardinality({i \in DOMAIN texts : texts[i] = Safe.extras_impact}) <= MaxImpactSpoken
    THEN n + Cardinality({i \in DOMAIN texts : texts[i] = Safe.extras_impact})
    ELSE MaxImpactSpoken

\* the request reaches detectExtrasMention (lines 686-703 do not return before)
\* and it finds an extra
detectsExtras(speech, h) == speech # "" /\ ~h.dollar /\ ~h.clarify /\ Len(h.extras) > 0

\* POST /call/start
CallStart ==
    /\ state' = callStart(state)
    /\ lastRequest' = "start"
    /\ spoken' = <<Safe.greeting>>
    /\ quoteSent' = NoCall
    /\ quoteAnswer' = NoCall
    /\ bookingSent' = NoCall
    /\ bookingAnswer' = FALSE
    /\ answered' = {}
    /\ failedBooking' = NoCall
    /\ booked' = FALSE
    /\ impactSpoken' = 0
    /\ extrasDetected' = FALSE
    /\ detectedNow' = FALSE
    /\ heardNumber' = NoNumber
    /\ utterance' = ""
    /\ scripted' = 0
    /\ postcodeFailures' = 0
    /\ UNCHANGED notCall

\* the effect of POST /call/input with result r of the handler
CallInputResult(speech, h, q, b, r) ==
    /\ state' = r.st
    /\ lastRequest' = "input"
    /\ spoken' = r.spoken
    /\ quoteSent' = r.quote
    /\ quoteAnswer' = IF r.quote = NoCall THEN NoCall ELSE q
    /\ bookingSent' = r.booking
    /\ bookingAnswer' = (r.booking # NoCall /\ b)
    /\ answered' = (IF r.stored = "" THEN answered ELSE answered \cup {r.stored})
                       \cap {r.st.data.extras[i].name : i \in DOMAIN r.st.data.extras}
    /\ failedBooking' = IF r.booking # NoCall /\ ~b THEN retainedFields(r.booking) ELSE failedBooking
    /\ booked' = (booked \/ (r.booking # NoCall /\ b))
    /\ impactSpoken' = countImpactSpoken(impactSpoken, r.spoken)
    /\ extrasDetected' = (extrasDetected \/ detectsExtras(speech, h))
    /\ detectedNow' = detectsExtras(speech, h)
    /\ heardNumber' = h.number
    /\ postcodeFailures' = countPostcodeFailures(postcodeFailures, state.stage, speech,
                                                 h.postcode, r.spoken)
    /\ UNCHANGED notCall

\* POST /call/input: the caller's utterance, and the collaborators' answers in the
\* turns that can call them
CallInput ==
    \E raw \in Says(state.stage) :
        \E q \in IF state.confirmSummaryPending THEN QuoteAnswers
                 ELSE {CHOOSE a \in QuoteAnswers : ~a.ok} :
            \E b \in IF state.stage = "need_booking_time" THEN BookingAnswers ELSE {FALSE} :
                /\ utterance' = raw
                /\ scripted' = followScript(scripted, lastRequest, raw)
                /\ CallInputResult(Said[raw], Heard[raw], q, b,
                                   callInput(state, Said[raw], Heard[raw], q, b))

Next == CallStart \/ CallInput

Spec == Init /\ [][Next]_vars

\* ------------------------------------------------------------------------
\* Functions of src/unnamed/part_000 applied to inputs of their own
\* ------------------------------------------------------------------------

\* the phrases of the table of frequencyFromSpeech
FrequencyPhrases == UNION {FrequencyTable[i].phrases : i \in DOMAIN FrequencyTable}

\* the words a caller puts before and after the phrase
WordsBefore == {"", "Maybe ", "I think it is "}

WordsAfter == {"", " please", " if that is possible"}

\* a caller says how often, with a phrase of the table
ReadFrequency ==
    /\ fnName = "none"
    /\ \E p \in FrequencyPhrases, b \in WordsBefore, a \in WordsAfter :
        /\ fnName' = "frequencyFromSpeech"
        /\ freqPhrase' = p
        /\ freqText' = b \o p \o a
        /\ freqResult' = frequencyFromSpeech(b \o p \o a)
    /\ UNCHANGED <<draftIn, draftOnce, draftTwice, secondOnce, secondTwice>>
    /\ UNCHANGED notFn

\* the drafts given to applyMinimumHours; hours and visits per week in quarters
DraftCategories == {"", "domestic", "commercial"}

DraftServiceTypes == {"", "Regular Cleaning", "Deep Clean"}

DraftJobTypes == {"", "one_time", "regular"}

DraftHours == {0, 1, 4, 11, 12, 13, 19, 20, 21, 40}

DraftFrequencies == {0, 2, 4, 11, 12, 13, 28}

\* the effect of applying the two servers' applyMinimumHours to draft d
NormalizeDraft(d) ==
    /\ fnName' = "applyMinimumHours"
    /\ draftIn' = d
    /\ draftOnce' = applyMinimumHours(d)
    /\ draftTwice' = applyMinimumHours(applyMinimumHours(d))
    /\ secondOnce' = secondApplyMinimumHours(d.service_category, d.job_type, d.preferred_hours,
                                             d.visit_frequency_per_week)
    /\ secondTwice' = secondApplyMinimumHours(d.service_category, d.job_type,
                                              secondApplyMinimumHours(d.service_category, d.job_type,
                                                                      d.preferred_hours,
                                                                      d.visit_frequency_per_week),
                                              d.visit_frequency_per_week)
    /\ UNCHANGED <<freqText, freqPhrase, freqResult>>
    /\ UNCHANGED notFn

\* a draft is normalised, and the result normalised again
NormalizeHours ==
    /\ fnName = "none"
    /\ \E c \in DraftCategories, sv \in DraftServiceTypes, j \in DraftJobTypes,
          h \in DraftHours, f \in DraftFrequencies :
            NormalizeDraft([emptyData EXCEPT !.service_category = c, !.domestic_service_type = sv,
                                             !.job_type = j, !.preferred_hours = h,
                                             !.visit_frequency_per_week = f])

\* ------------------------------------------------------------------------
\* Requests of several calls to src/unnamed/part_000
\* ------------------------------------------------------------------------

\* most handlers suspended at await callMakeGetQuote at a time
MaxInFlight == 2

\* what the callers of these calls answer to the question of a stage
SessionAnswers ==
    [ start |-> {"a flat", "the office"},
      need_category |-> {"a flat", "the office"},
      need_domestic_service_type |-> {"deep clean"},
      need_domestic_property_type |-> {"a flat"},
      need_domestic_postcode |-> {"E2 8AA"},
      need_domestic_bedrooms |-> {"2"},
      need_domestic_bathrooms |-> {"2"},
      need_domestic_toilets |-> {"2"},
      ask_extras_domestic_optional |-> {"no extras"},
      need_commercial_service_type |-> {"deep clean"},
      need_commercial_job_type |-> {"one off"},
      need_commercial_property_type |-> {"the office"},
      need_commercial_rooms_or_area |-> {"about ten rooms"},
      need_commercial_toilets |-> {"2"},
      need_commercial_kitchens |-> {"2"},
      need_commercial_postcode |-> {"E28AA"},
      need_commercial_hours |-> {"2"},
      ask_extras_commercial_optional |-> {"no extras"} ]

\* the utterances offered to the call whose session is st; the summary read
\* back is answered by yes
SessionSays(st) ==
    IF st = NoSession THEN SessionAnswers.start
    ELSE IF st.confirmSummaryPending THEN {"yes"}
    ELSE IF st.stage \in DOMAIN SessionAnswers THEN SessionAnswers[st.stage]
    ELSE {}

\* the answers of the pricing collaborator to these calls
SessionQuoteAnswers ==
    { [ok |-> FALSE, data |-> QuoteData(FALSE, "", "", 0, "")],
      [ok |-> TRUE, data |-> QuoteData(FALSE, "", "", 120, "")] }

\* the handlers of call sid among the suspended ones
inFlightOf(seq, sid) ==
    LET ofCall(p) == p.sid = sid
    IN  SelectSeq(seq, ofCall)

\* app.post("/call/input") with CallSid sid and SpeechResult raw, as far as its
\* response or its await
sessionsInput(w, sid, raw) ==
    sessionsInputResult(w, sid, callInput(ensureStateFor(w.sessions, sid)[sid], Said[raw],
                                          Heard[raw], Suspended, FALSE))

\* POST /call/start of one of the calls: a new call, or a call whose caller rings
\* again while the price is awaited
SessionsStart ==
    \E sid \in CallSids :
        /\ IF world.sessions[sid] = NoSession THEN TRUE
           ELSE /\ world.sessions[sid].confirmSummaryPending
                /\ Len(inFlightOf(world.inFlight, sid)) = 1
        /\ world' = sessionsStart(world, sid)
        /\ alone' = [alone EXCEPT ![sid] = sessionsStart(@, sid)]
        /\ UNCHANGED notSessions

\* POST /call/input of one of the calls: the handler runs to its response or to
\* its await
SessionsInput ==
    \E sid \in CallSids :
        \E raw \in SessionSays(world.sessions[sid]) :
            /\ Len(world.inFlight) < MaxInFlight
            /\ world' = sessionsInput(world, sid, raw)
            /\ alone' = [alone EXCEPT ![sid] = sessionsInput(@, sid, raw)]
            /\ UNCHANGED notSessions

\* the pricing collaborator answers one of the suspended handlers, which runs
\* to its response
SessionsQuoteReturn ==
    \E i \in DOMAIN world.inFlight :
        \E q \in SessionQuoteAnswers :
            /\ world' = sessionsQuoteReturn(world, i, q)
            /\ alone' = [alone EXCEPT ![world.inFlight[i].sid] =
                             sessionsQuoteReturn(@, Len(inFlightOf(SubSeq(world.inFlight, 1, i),
                                                                   world.inFlight[i].sid)), q)]
            /\ UNCHANGED notSessions

NextSessions == SessionsStart \/ SessionsInput \/ SessionsQuoteReturn

SpecSessions == Init /\ [][NextSessions]_vars

NextDecoder == DecodeSpelled \/ DecodeArbitrary

SpecDecoder == Init /\ [][NextDecoder]_vars

NextFirst == FirstCallStart \/ FirstCallInput

SpecFirst == Init /\ [][NextFirst]_vars

NextFn == ReadFrequency \/ NormalizeHours

SpecFn == Init /\ [][NextFn]_vars

\* ------------------------------------------------------------------------
\* src/server.js, second server: the requests of one call
\* ------------------------------------------------------------------------

\* longest notes the requests may build
MaxNotesLen == 40

\* how often the dialogue of one call identifier may be taken back
MaxSecondRestarts == 1

\* what the caller may say at a stage of the second server
SecondAnswers ==
    [ need_category |-> {"a home", "business", "hello"},
      need_service_type |-> {"deep clean", "regular"},
      need_job_type |-> {"ongoing"},
      need_property_type |-> {"a flat", "an office"},
      need_postcode |-> {"sw1a  1aa", "hello"},
      need_bedrooms |-> {"2"},
      need_bathrooms |-> {"1"},
      need_toilets |-> {"no"},
      need_rooms_or_size |-> {"5 rooms"},
      need_toilets_commercial |-> {"2"},
      need_kitchens_commercial |-> {"a kitchen"},
      need_hours |-> {"2"},
      need_frequency |-> {"3 times a week"},
      need_extras |-> {"no extras", "sofa and oven and carpets please", "the oven and nothing else",
                       "hello"},
      need_extra_quantity |-> {"2", "let me think"},
      confirm_details_before_quote |-> {" yes ", "no", "hello"},
      free_edit_note |-> {"3 hours"},
      offer_booking |-> {"yes", "no"},
      need_full_name |-> {"Ann Lee"},
      need_phone |-> {"07700 900123"},
      need_email |-> {"ann@example.com"},
      need_address |-> {"1 High Street"},
      need_date |-> {"monday"},
      need_time |-> {"10am"},
      get_quote |-> {"hello"},
      end |-> {"hello"} ]

\* SpeechResult of the requests: the answers, one with spaces around, and none
SecondUtterances == UNION {SecondAnswers[s] : s \in DOMAIN SecondAnswers} \cup {""}

\* String(req.body.SpeechResult || "").trim()
SecondSaid == [u \in SecondUtterances |-> trim(u)]

SecondHeard == [u \in SecondUtterances |-> secondHear(SecondSaid[u])]

SecondSays(stage) == SecondAnswers[stage] \cup {""}

\* POST /call/start of the second server
SecondCallStart ==
    /\ secondRestarts < MaxSecondRestarts
    /\ secondRestarts' = secondRestarts + 1
    /\ second' = secondCallStart(second)
    /\ secondRequest' = "start"
    /\ secondSpoken' = SecondSafe.greeting
    /\ secondQuoteSent' = NoCall
    /\ secondQuoteOk' = FALSE
    /\ secondBookingSent' = NoCall
    /\ secondNumber' = NoNumber
    /\ secondMentioned' = <<>>
    /\ secondAnswered' = {}
    /\ UNCHANGED notSecond

\* the request left a stage after need_postcode for need_category or need_postcode
takenBack(stage, r) ==
    /\ stage \notin {"need_category", "need_service_type", "need_job_type", "need_property_type",
                     "need_postcode"}
    /\ r.st.stage \in {"need_category", "need_postcode"}

SecondCallInputResult(h, q, r) ==
    /\ Len(r.st.data.notes) <= MaxNotesLen
    /\ second' = r.st
    /\ secondRequest' = "input"
    /\ secondSpoken' = r.spoken
    /\ secondQuoteSent' = r.quote
    /\ secondQuoteOk' = (r.quote # NoCall /\ q.ok)
    /\ secondBookingSent' = r.booking
    /\ secondNumber' = h.number
    /\ secondMentioned' = IF second.stage = "need_extras" THEN h.extras
                          ELSE IF second.stage = "need_extra_quantity" THEN secondMentioned
                          ELSE <<>>
    /\ secondAnswered' = IF second.stage # "need_extra_quantity" THEN {}
                         ELSE IF h.number = NoNumber \/ second.temp.current_extra = "" THEN secondAnswered
                         ELSE secondAnswered \cup {second.temp.current_extra}
    /\ secondRestarts' = IF takenBack(second.stage, r) THEN secondRestarts + 1 ELSE secondRestarts
    /\ secondRestarts' <= MaxSecondRestarts
    /\ UNCHANGED notSecond

\* POST /call/input of the second server: the caller's utterance, and what the
\* collaborators do in the turns that call them
SecondCallInput ==
    \E raw \in SecondSays(second.stage) :
        \E q \in IF second.stage = "confirm_details_before_quote" THEN SecondQuoteAnswers
                 ELSE {[ok |-> FALSE, data |-> NoQuote]} :
            \E b \in IF second.stage = "need_time" THEN SecondBookingAnswers ELSE {FALSE} :
                SecondCallInputResult(SecondHeard[raw], q,
                                      secondCallInput(second, SecondSaid[raw], SecondHeard[raw], q, b))

NextSecond == SecondCallStart \/ SecondCallInput

SpecSecond == Init /\ [][NextSecond]_vars

\* ------------------------------------------------------------------------
\* Properties of the decoder
\* ------------------------------------------------------------------------

\* C8: a valid postcode spoken letter by letter with digits, with NATO words and
\* digit words, with "double u" for W, or as compact tokens decodes to the same
\* canonical postcode "<outward> <inward>".
C8_SpelledFormsDecode ==
    (pcKind = "spelled" /\ pcForm \in {"letters", "nato", "doubleu", "compact"})
        => pcResult = pcCanon

\* C8 witness: the NATO spelling of SW1A 1AA has been decoded to it
C8_Witness ==
    /\ pcText = "sierra whiskey one alpha one alpha alpha"
    /\ pcResult = "SW1A 1AA"

\* C9: a postcode spelled with "<letter> for|as in|like <word>" phrases decodes to
\* the same canonical postcode as its letter-by-letter spelling.
C9_PhoneticDecodes ==
    (pcKind = "spelled" /\ pcForm = "phonetic") => pcResult = pcCanon

\* the shape "1-2 letters, digit, optional letter or digit, space, digit, 2 letters"
CanonicalShape(s) ==
    \E area \in 1..2, opt \in 0..1 :
        LET sp == area + opt + 2
        IN  /\ Len(s) = sp + 3
            /\ \A i \in 1..area : IsUpperLetter(CharAt(s, i))
            /\ IsDigit(CharAt(s, area + 1))
            /\ opt = 1 => (IsUpperLetter(CharAt(s, area + 2)) \/ IsDigit(CharAt(s, area + 2)))
            /\ CharAt(s, sp) = " "
            /\ IsDigit(CharAt(s, sp + 1))
            /\ IsUpperLetter(CharAt(s, sp + 2))
            /\ IsUpperLetter(CharAt(s, sp + 3))

\* C10: for every text the decoder returns no match or a string of the canonical
\* shape, and no match for an empty or whitespace-only text.
C10_NullOrCanonical ==
    pcKind # "none" =>
        /\ pcResult = NoMatch \/ CanonicalShape(pcResult)
        /\ normalizeSpaces(pcText) = "" => pcResult = NoMatch

\* C10 witness: words that are no postcode gave no match, none partially decoded
C10_Witness == pcKind = "arbitrary" /\ pcText = "sw1a 1aa a" /\ pcResult = NoMatch

\* ------------------------------------------------------------------------
\* Properties of the first server's postcode stages
\* ------------------------------------------------------------------------

\* the quote after the extraction step of the request just handled
FirstQuoteAfterAi == IF s1Ai' # NoAi THEN s1Ai' ELSE s1.quote

\* the request just handled was a non-empty utterance that gave no postcode
FirstFailedPostcodeTurn ==
    /\ s1Event' = "input"
    /\ s1Speech' # ""
    /\ s1.stage = "need_postcode"
    /\ extractUkPostcode(s1Speech') = NoMatch

\* C6: in need_postcode the first non-empty utterance that does not decode keeps
\* the stage and re-asks with the spelling hint, the second moves the stage to
\* postcode_fallback; the next non-empty utterance is appended to quote.notes as
\* the fallback location and the stage moves past the postcode steps; on this
\* path the postcode stages write no postcode (quote.postcode is what the
\* extraction step left); the postcode is never asked a third time.
C6_PostcodeRetryThenFallback ==
    [][ /\ (FirstFailedPostcodeTurn /\ s1.postcode_attempts = 0) =>
              /\ s1'.stage = "need_postcode"
              /\ s1'.postcode_attempts = 1
              /\ s1'.quote = FirstQuoteAfterAi
              /\ s1Spoken' = FirstPrompt.postcode_hint
        /\ (FirstFailedPostcodeTurn /\ s1.postcode_attempts >= 1) =>
              /\ s1'.stage = "postcode_fallback"
              /\ s1'.quote.postcode = FirstQuoteAfterAi.postcode
              /\ s1Spoken' = FirstPrompt.postcode_fallback
        /\ (s1Event' = "input" /\ s1Speech' # "" /\ s1.stage = "postcode_fallback") =>
              /\ s1'.stage = "next_placeholder"
              /\ s1'.quote.notes = FirstQuoteAfterAi.notes \o " Fallback location: \""
                                       \o s1Speech' \o "\"."
              /\ s1'.quote.postcode = FirstQuoteAfterAi.postcode
              /\ s1Spoken' = FirstPrompt.after_fallback
        /\ (s1Event' = "input" /\ s1.stage \in {"postcode_fallback", "next_placeholder"}) =>
              s1'.stage \notin {"need_postcode"}
        /\ (s1Event' = "input" /\ s1Spoken' \in {FirstPrompt.postcode, FirstPrompt.postcode_hint}) =>
              s1'.postcode_attempts <= 1
      ]_vars

\* C6 witness: two utterances gave no postcode, the third was taken as the
\* fallback location, and the call is past the postcode steps with no postcode
C6_Witness ==
    /\ s1.stage = "next_placeholder"
    /\ s1.postcode_attempts = 2
    /\ s1.quote.postcode = ""
    /\ s1.quote.notes = " Postcode capture failed. Caller said: \"sorry what\". Fallback location: \"leeds near the station\"."

\* C6 as stated: whenever the fallback location is taken the quote's postcode is
\* still empty.
C6_PostcodeStillEmpty ==
    [][ (s1Event' = "input" /\ s1Speech' # "" /\ s1.stage = "postcode_fallback") =>
            s1'.quote.postcode = "" ]_vars

\* ------------------------------------------------------------------------
\* src/unnamed/part_000: properties of the call handler
\* ------------------------------------------------------------------------

\* a dollar marker in a text, case-insensitive
DollarMarked(text) == hasDollarMarker(toLowerCase(text))

\* C1: no text handed to say or sayGather contains a dollar marker ("$", "usd",
\* "dollar", "bucks", in any case), whatever the caller said and whatever the
\* collaborators answered.
C1_NoDollarSpoken == \A i \in DOMAIN spoken : ~DollarMarked(spoken[i])

\* a pricing answer whose sentence names dollars was received, and the caller
\* heard the pounds-only sentence
C1_Witness ==
    /\ quoteAnswer # NoCall
    /\ quoteAnswer.ok
    /\ quoteAnswer.data.explanation = "That comes to 45 Dollars."
    /\ spoken = <<Safe.fix_feed>>

\* a dollar marker in a text field of the pricing response
ResponseHasDollar(d) == DollarMarked(d.text) \/ DollarMarked(d.explanation) \/ DollarMarked(d.currency)

\* C2: a pricing response that arrived but carries a dollar marker anywhere puts
\* the session in need_booking_name with quoteResult unset and only the fixed
\* sentences spoken; a failed pricing request leaves the stage as it was.
C2_DollarResponseToCallback ==
    [][ /\ (quoteAnswer' # NoCall /\ quoteAnswer'.ok /\ ResponseHasDollar(quoteAnswer'.data))
            => /\ state'.stage = "need_booking_name"
               /\ state'.quoteResult = NoQuote
               /\ ~state'.confirmSummaryPending
               /\ spoken' \in {<<Safe.fix_feed>>, <<Safe.extras_impact, Safe.fix_feed>>}
        /\ (quoteAnswer' # NoCall /\ ~quoteAnswer'.ok)
            => /\ state'.stage = state.stage
               /\ state'.stage # "need_booking_name"
               /\ state'.quoteResult = NoQuote
               /\ spoken'[Len(spoken')] = Safe.price_fail ]_vars

\* the response's sentence is in pounds but its currency field says USD, and
\* the session is collecting the callback name
C2_Witness ==
    /\ quoteAnswer # NoCall
    /\ quoteAnswer.ok
    /\ quoteAnswer.data.currency = "USD"
    /\ state.stage = "need_booking_name"
    /\ spoken = <<Safe.fix_feed>>

\* the payload has every quote-critical item of its category
PayloadComplete(p) ==
    /\ p.service_category \in {"domestic", "commercial"}
    /\ p.postcode # ""
    /\ p.service_category = "domestic" =>
          /\ p.domestic_service_type # ""
          /\ p.domestic_property_type # ""
          /\ p.domestic_service_type = "Regular Cleaning" =>
                p.job_type # "" /\ p.preferred_hours > 0 /\ p.visit_frequency_per_week > 0
    /\ p.service_category = "commercial" =>
          /\ p.commercial_service_type # ""
          /\ p.commercial_property_type # ""
          /\ p.job_type # ""
          /\ p.preferred_hours > 0
          /\ p.job_type = "regular" => p.visit_frequency_per_week > 0

\* C3: a payload is sent to the pricing collaborator only when the draft has its
\* category, the category's service type and property type, a postcode and,
\* where the service calls for them, job type, hours > 0 and frequency > 0.
C3_PricedOnlyWhenComplete == quoteSent # NoCall => PayloadComplete(quoteSent)

\* an hourly domestic draft with hours and frequency was sent for pricing
C3_Witness ==
    /\ quoteSent # NoCall
    /\ quoteSent.domestic_service_type = "Regular Cleaning"
    /\ quoteSent.job_type = "regular"
    /\ quoteSent.visit_frequency_per_week > 0

\* C4: no payload sent to the pricing collaborator holds an extra whose quantity
\* the caller never gave in a quantity turn.
C4_NoUnansweredExtraPriced ==
    quoteSent # NoCall => \A i \in DOMAIN quoteSent.extras : quoteSent.extras[i].name \in answered

\* C5: at most one of the pairs (domestic_service_type, domestic_property_type)
\* and (commercial_service_type, commercial_property_type) has a non-empty
\* field, and it is the pair of the call's service category.
C5_OneCategoryPair ==
    /\ state.data.service_category # "domestic" =>
          state.data.domestic_service_type = "" /\ state.data.domestic_property_type = ""
    /\ state.data.service_category # "commercial" =>
          state.data.commercial_service_type = "" /\ state.data.commercial_property_type = ""

\* a commercial call in which the caller named a part of the premises
C5_Witness ==
    /\ state.data.service_category = "commercial"
    /\ state.data.areas_scope # ""
    /\ state.data.commercial_service_type # ""
    /\ state.data.commercial_property_type # ""

\* C7: after two consecutive utterances that gave no postcode in a postcode
\* stage the session has left the postcode stage.
C7_PostcodeAskedAtMostTwice == postcodeFailures >= 2 => state.stage \notin PostcodeStages

\* C11: data.postcode and booking.postcode are empty or a canonical postcode,
\* "<outward> <inward>" with one space before the last three characters.
C11_PostcodesCanonical ==
    /\ state.data.postcode = "" \/ CanonicalShape(state.data.postcode)
    /\ state.booking.postcode = "" \/ CanonicalShape(state.booking.postcode)

\* the value, in quarters, the table gives for a phrase: weekly 1; fortnightly,
\* bi-weekly, every other week 0.5; monthly, once a month 0.25; twice a week 2;
\* three times a week 3; every weekday 5; daily including weekends 7
TableValue(p) ==
    CASE p = "weekly" -> 4
      [] p \in {"fortnightly", "bi-weekly", "every other week"} -> 2
      [] p \in {"monthly", "once a month"} -> 1
      [] p = "twice a week" -> 8
      [] p = "three times a week" -> 12
      [] p = "every weekday" -> 20
      [] p = "daily including weekends" -> 28
      [] OTHER -> NoNumber

\* C12: for an utterance that contains a phrase of the table, whatever words
\* surround it, frequencyFromSpeech returns the table's value for the phrase.
C12_FrequencyIsTableValue ==
    (fnName = "frequencyFromSpeech" /\ TableValue(freqPhrase) # NoNumber)
        => freqResult = TableValue(freqPhrase)

\* C13: applying applyMinimumHours to its own result changes nothing, and the
\* function never lowers preferred_hours; so for the second server's function.
C13_MinimumHoursIdempotent ==
    fnName = "applyMinimumHours" =>
        /\ draftTwice = draftOnce
        /\ draftOnce.preferred_hours >= draftIn.preferred_hours
        /\ secondTwice = secondOnce
        /\ secondOnce >= draftIn.preferred_hours

\* one hour asked for a regular domestic clean was raised to three, and stayed
C13_Witness ==
    /\ fnName = "applyMinimumHours"
    /\ draftIn.service_category = "domestic"
    /\ draftIn.domestic_service_type = "Regular Cleaning"
    /\ draftIn.job_type = "regular"
    /\ draftIn.preferred_hours = 4
    /\ draftOnce.preferred_hours = 12
    /\ draftTwice.preferred_hours = 12

\* the floor, in quarters of an hour, of the payload's branch; 0 for a job that
\* is not hourly
HoursFloor(p) ==
    IF p.service_category = "domestic" /\ p.domestic_service_type = "Regular Cleaning"
    THEN IF p.job_type = "regular" THEN 12 ELSE IF p.job_type = "one_time" THEN 20 ELSE 0
    ELSE IF p.service_category = "commercial"
    THEN IF p.job_type = "one_time" THEN 20
         ELSE IF p.job_type = "regular"
         THEN IF p.visit_frequency_per_week >= 12 THEN 4 ELSE 12
         ELSE 0
    ELSE 0

\* C14: the payload sent for an hourly job has preferred_hours equal to the
\* greater of the hours the caller gave and the floor of its branch (domestic
\* regular 3, domestic one-off 5, commercial one-off 5, commercial regular 1 from
\* three visits a week on and 3 below), and the session's draft has them too.
C14_PayloadHoursAtLeastFloor ==
    [][ (quoteSent' # NoCall /\ HoursFloor(quoteSent') > 0) =>
            /\ quoteSent'.preferred_hours =
                  IF state.data.preferred_hours >= HoursFloor(quoteSent')
                  THEN state.data.preferred_hours ELSE HoursFloor(quoteSent')
            /\ state'.data.preferred_hours = quoteSent'.preferred_hours ]_vars

\* a regular commercial job of three visits a week and two hours was sent with
\* its two hours, the floor being one
C14_Witness ==
    /\ quoteSent # NoCall
    /\ quoteSent.service_category = "commercial"
    /\ quoteSent.job_type = "regular"
    /\ quoteSent.visit_frequency_per_week = 12
    /\ quoteSent.preferred_hours = 8

\* the names of the extras the handler knows
ExtraNames ==
    {"Oven cleaning", "Carpet cleaning", "Upholstery cleaning", "Inside windows",
     "Limescale removal", "Deep toilet clean", "Fridge / freezer cleaning",
     "Internal cabinet cleaning", "Blinds dusting", "Wall spot cleaning", "Pet hair removal",
     "Mold spot treatment", "Mattress steam clean", "Degreasing extractor fans"}

\* a list of extras with one entry per name, known names and whole quantities
ExtrasWellFormed(extras) ==
    /\ \A i, j \in DOMAIN extras : extras[i].name = extras[j].name => i = j
    /\ \A i \in DOMAIN extras :
          /\ extras[i].name \in ExtraNames
          /\ extras[i].quantity >= 0
          /\ extras[i].quantity % 4 = 0

\* C15: data.extras has at most one entry per name, known names and quantities
\* that are non-negative integers; a request leaves every entry with a quantity
\* above 0 as it is, unless it answers the quantity question for that extra; and
\* a number given in answer to the quantity question is stored, rounded down, on
\* the extra asked about.
C15_ExtrasWellFormed ==
    [][ /\ ExtrasWellFormed(state'.data.extras)
        /\ lastRequest' = "input" =>
              \A i \in DOMAIN state.data.extras :
                  (state.data.extras[i].quantity > 0
                      /\ state.data.extras[i].name # state.pendingExtraName)
                  => \E j \in DOMAIN state'.data.extras :
                        state'.data.extras[j] = state.data.extras[i]
        /\ (lastRequest' = "input" /\ state.pendingExtraName # "" /\ heardNumber' # NoNumber) =>
              \E j \in DOMAIN state'.data.extras :
                  state'.data.extras[j] =
                      [name |-> state.pendingExtraName, quantity |-> 4 * (heardNumber' \div 4)]
      ]_vars

\* the answer "2.5" to the quantity question for the oven is stored as 2
C15_Witness ==
    /\ heardNumber = 10
    /\ "Oven cleaning" \in answered
    /\ state.data.extras = <<[name |-> "Oven cleaning", quantity |-> 8]>>
    /\ state.pendingExtraName = ""

\* C16: between two /call/start requests the extras impact sentence is spoken at
\* most once, and it is spoken in the response to the first request in which an
\* extra is detected.
C16_ImpactSpokenOnce ==
    [][ /\ impactSpoken' <= 1
        /\ (lastRequest' = "input" /\ detectedNow' /\ ~extrasDetected) =>
              \E i \in DOMAIN spoken' : spoken'[i] = Safe.extras_impact
        /\ (lastRequest' = "input" /\ ~(detectedNow' /\ ~extrasDetected)) =>
              \A i \in DOMAIN spoken' : spoken'[i] # Safe.extras_impact ]_vars

\* the oven was mentioned in a second request and the sentence not spoken again
C16_Witness ==
    /\ detectedNow
    /\ impactSpoken = 1
    /\ \A i \in DOMAIN spoken : spoken[i] # Safe.extras_impact

\* the sentences that ask for the name, the phone number, the email or the address
FormQuestions ==
    {Safe.full_name, Safe.phone, Safe.email, Safe.address, Safe.booking_schema_fail, Safe.fix_feed}

\* C19: when the booking collaborator refuses the booking the stage becomes
\* need_booking_date and the name, phone, email and address stay as they were and
\* the postcode as it was submitted; from then on the handler asks for the date and
\* the time only, and an utterance in need_booking_date followed by one in
\* need_booking_time submits the booking again with the retained fields.
C19_BookingFailureKeepsForm ==
    [][ /\ (bookingSent' # NoCall /\ ~bookingAnswer') =>
              /\ state'.stage = "need_booking_date"
              /\ retainedFields(state'.booking) = retainedFields(bookingSent')
              /\ state'.booking.full_name = state.booking.full_name
              /\ state'.booking.phone = state.booking.phone
              /\ state'.booking.email = state.booking.email
              /\ state'.booking.address = state.booking.address
              /\ state.booking.postcode # "" => state'.booking.postcode = state.booking.postcode
        /\ (failedBooking # NoCall /\ lastRequest' = "input") =>
              /\ state'.stage \in {"need_booking_date", "need_booking_time"}
              /\ retainedFields(state'.booking) = failedBooking
              /\ \A i \in DOMAIN spoken' : spoken'[i] \notin FormQuestions
              /\ (state.stage = "need_booking_date" /\ spoken' # <<Safe.no_input>>) =>
                     state'.stage = "need_booking_time"
              /\ (state.stage = "need_booking_time" /\ spoken' # <<Safe.no_input>>) =>
                     /\ bookingSent' # NoCall
                     /\ retainedFields(bookingSent') = failedBooking ]_vars

\* a booking refused, the date and the time given again, and the booking accepted
C19_Witness ==
    /\ failedBooking # NoCall
    /\ bookingSent # NoCall
    /\ bookingAnswer
    /\ retainedFields(bookingSent) = failedBooking
    /\ failedBooking.full_name = "Ann Lee"

\* C20: after the booking collaborator has reported success no later utterance
\* of the call submits a booking or changes the booking draft.
C20_BookedIsTerminal ==
    [][ (booked /\ lastRequest' = "input") =>
            /\ bookingSent' = NoCall
            /\ state'.booking = state.booking ]_vars

\* ------------------------------------------------------------------------
\* Properties of the second server
\* ------------------------------------------------------------------------

\* C17: when an utterance in need_extras mentions extras e1..en, the quantity
\* loop asks for one quantity at a time in detection order, a turn without a
\* number asks for the same extra again and leaves the queue alone, a numeric
\* answer is stored on the extra being asked, and the stage becomes
\* confirm_details_before_quote only when the queue is empty and every one of
\* e1..en has an answered quantity.
C17_QuantitiesAskedInOrder ==
    [][ secondRequest' = "input" =>
          /\ (second.stage = "need_extras" /\ secondMentioned' # <<>>) =>
                /\ second'.stage = "need_extra_quantity"
                /\ second'.temp.current_extra = Head(secondMentioned')
                /\ second'.temp.extras_queue = Tail(secondMentioned')
          /\ (second.stage = "need_extra_quantity" /\ secondNumber' = NoNumber) =>
                /\ second'.stage = second.stage
                /\ second'.temp = second.temp
                /\ second'.data.extras = second.data.extras
          /\ (second.stage = "need_extra_quantity" /\ secondNumber' # NoNumber) =>
                /\ DOMAIN second'.data.extras = DOMAIN second.data.extras
                /\ \A i \in DOMAIN second.data.extras :
                      second'.data.extras[i] =
                          IF second.data.extras[i].name = second.temp.current_extra
                          THEN [name |-> second.temp.current_extra, quantity |-> secondNumber']
                          ELSE second.data.extras[i]
                /\ second.temp.extras_queue # <<>> =>
                      /\ second'.stage = second.stage
                      /\ second'.temp.current_extra = Head(second.temp.extras_queue)
                      /\ second'.temp.extras_queue = Tail(second.temp.extras_queue)
          /\ (/\ second.stage \in {"need_extras", "need_extra_quantity"}
              /\ second'.stage = "confirm_details_before_quote"
              /\ secondMentioned' # <<>>) =>
                /\ second'.temp.extras_queue = <<>>
                /\ \A i \in DOMAIN secondMentioned' : secondMentioned'[i] \in secondAnswered' ]_vars

\* C18: when callMakeGetQuote fails the session does not enter offer_booking in
\* that turn, the turn stores no quote, the category, the service types and the
\* property types stay as they were, and the stage becomes need_postcode, where
\* the next utterance is read as the postcode.
C18_QuoteFailureAsksPostcode ==
    [][ /\ (secondQuoteSent' # NoCall /\ ~secondQuoteOk') =>
              /\ second'.stage = "need_postcode"
              /\ second'.data.quote = second.data.quote
              /\ second'.data.service_category = second.data.service_category
              /\ second'.data.domestic_service_type = second.data.domestic_service_type
              /\ second'.data.commercial_service_type = second.data.commercial_service_type
              /\ second'.data.domestic_property_type = second.data.domestic_property_type
              /\ second'.data.commercial_property_type = second.data.commercial_property_type
        /\ (secondQuoteSent # NoCall /\ ~secondQuoteOk /\ secondRequest' = "input") =>
              \/ second'.stage = "need_postcode" /\ second'.data = second.data
              \/ /\ second'.stage \in {"need_bedrooms", "need_rooms_or_size"}
                 /\ second'.data.postcode = "SW1A 1AA" ]_vars

\* the pricing of a domestic deep clean has failed
C18_Witness ==
    /\ secondQuoteSent # NoCall
    /\ ~secondQuoteOk
    /\ second.stage = "need_postcode"
    /\ second.data.domestic_service_type = "Deep Clean"
    /\ second.data.quote = NoQuote

\* ------------------------------------------------------------------------
\* Properties of the part_000 handler: booking, types, recovery
\* ------------------------------------------------------------------------

\* C21: the booking draft is populated and the booking collaborator invoked only
\* after a pricing submission has succeeded for the call; in every state where a
\* booking field is non-empty, quoteResult is set.
C21_BookingOnlyAfterQuote ==
    /\ (state.booking # emptyBooking) => state.quoteResult # NoQuote
    /\ (bookingSent # NoCall) => state.quoteResult # NoQuote

\* the fields of a quote that are populated: a non-empty string, a non-zero
\* number, a non-empty extras list
QuoteStrings ==
    {"service_category", "domestic_service_type", "commercial_service_type",
     "domestic_property_type", "commercial_property_type", "job_type", "postcode",
     "areas_scope", "notes"}

QuoteNumbers ==
    {"bedrooms", "bathrooms", "toilets", "kitchens", "preferred_hours",
     "visit_frequency_per_week"}

populatedFields(q) ==
    {f \in QuoteStrings : q[f] # ""} \cup {f \in QuoteNumbers : q[f] # 0}
        \cup (IF q.extras # <<>> THEN {"extras"} ELSE {})

\* C22: an AI-proposed quote never overwrites a field of the current draft that
\* is already populated: after the AI step of a turn every populated field still
\* has its previous value.
C22_AiKeepsPopulatedFields ==
    [][(s1Event' = "input" /\ s1Speech' # "" /\ s1Ai' # NoAi)
         => \A f \in populatedFields(s1.quote) :
                firstAiStep(s1, s1Ai').quote[f] = s1.quote[f]]_vars

\* C23: need_category advances to need_service_type only when the utterance
\* matches the keywords of exactly one category; an utterance matching neither or
\* both leaves the stage at need_category and is answered by the category
\* question again.
C23_CategoryNeverAssumed ==
    [][(s1Event' = "input" /\ s1Speech' # "" /\ s1.stage = "need_category"
            /\ FirstHeard[s1Speech'].category = "")
         => (s1'.stage = "need_category" /\ s1Spoken' = FirstSafe.category_retry)]_vars

\* the stages in which the part_000 handler asks for the domestic property type
\* and for its confirmation
PropertyTypeStages == {"need_domestic_property_type", "confirm_domestic_property_type"}

C25_SpelledPostcodeCall ==
    /\ (scripted > 0) => (state.stage = "confirm_domestic_property_type" <=> scripted = 3)
    /\ (scripted = Len(Script)) =>
          /\ state.data.service_category = "domestic"
          /\ state.data.domestic_service_type = "Deep Clean"
          /\ state.data.domestic_property_type = "Semi-detached house"
          /\ state.data.postcode = "SW1A 1AA"
          /\ state.stage = "need_domestic_bedrooms"

\* C26: whenever a domestic draft has a non-empty areas_scope its
\* domestic_service_type is 'Deep Clean', and so has every domestic payload
\* submitted to pricing with a non-empty areas_scope.
C26_AreasScopeForcesDeepClean ==
    /\ (state.data.service_category = "domestic" /\ state.data.areas_scope # "")
          => state.data.domestic_service_type = "Deep Clean"
    /\ (quoteSent # NoCall /\ quoteSent.service_category = "domestic"
            /\ quoteSent.areas_scope # "")
          => quoteSent.domestic_service_type = "Deep Clean"

\* C27: the four type fields only ever hold the empty string or a value of their
\* fixed vocabulary; an utterance that says only 'house' in answer to the property
\* type question stores no value and is answered by the question for the subtype.
C27_TypeFieldsInVocabulary ==
    [][lastRequest' = "input" =>
        /\ \A f \in DOMAIN TypeVocabulary :
              state'.data[f] = "" \/ state'.data[f] \in TypeVocabulary[f]
        /\ (quoteSent' # NoCall) =>
              \A f \in DOMAIN TypeVocabulary :
                  quoteSent'[f] = "" \/ quoteSent'[f] \in TypeVocabulary[f]
        /\ (state.stage = "need_domestic_property_type" /\ utterance' = "house")
              => /\ state'.data.domestic_property_type = ""
                 /\ state'.stage = "need_domestic_property_type"
                 /\ spoken' = <<Safe.domestic_property_retry>>]_vars

\* the caller answered the property type question with 'house' and was asked
\* for the subtype
C27_Witness ==
    /\ lastRequest = "input"
    /\ utterance = "house"
    /\ state.stage = "need_domestic_property_type"
    /\ state.data.domestic_property_type = ""
    /\ state.data.domestic_service_type \in TypeVocabulary.domestic_service_type
    /\ spoken = <<Safe.domestic_property_retry>>

\* the sentences with which the part_000 handler asks the question of a stage,
\* first and again; the stages start and need_category share the question of the
\* greeting and of its repetitions
StageQuestions ==
    [ start |-> {Safe.greeting, Safe.category, Safe.no_input, Safe.missed},
      need_category |-> {Safe.greeting, Safe.category, Safe.no_input, Safe.missed},
      need_domestic_service_type |-> {Safe.domestic_service, Safe.domestic_service_retry},
      need_domestic_property_type |->
          {Safe.domestic_property, Safe.domestic_property_retry, Safe.domestic_property_again},
      confirm_domestic_property_type |->
          {ensureGbpSpeech("Just to check, would that be " \o v \o "?") :
              v \in TypeVocabulary.domestic_property_type},
      need_domestic_postcode |-> {Safe.postcode, Safe.postcode_retry},
      need_domestic_bedrooms |-> {Safe.bedrooms, Safe.bedrooms_retry},
      need_domestic_bathrooms |-> {Safe.bathrooms, Safe.bathrooms_retry},
      need_domestic_toilets |-> {Safe.domestic_toilets, Safe.domestic_toilets_retry},
      need_domestic_job_type |-> {Safe.domestic_job, Safe.domestic_job_retry},
      need_domestic_hours |-> {Safe.domestic_hours, Safe.domestic_hours_retry},
      need_domestic_frequency |-> {Safe.frequency, Safe.frequency_retry},
      ask_extras_domestic_optional |->
          {Safe.extras, Safe.which_extra_domestic, Safe.is_that_correct, Safe.change},
      need_commercial_service_type |-> {Safe.commercial_service, Safe.commercial_service_retry},
      need_commercial_job_type |-> {Safe.commercial_job, Safe.commercial_job_retry},
      need_commercial_property_type |->
          {Safe.commercial_property, Safe.commercial_property_retry},
      need_commercial_rooms_or_area |-> {Safe.rooms},
      need_commercial_toilets |-> {Safe.commercial_toilets, Safe.commercial_toilets_retry},
      need_commercial_kitchens |-> {Safe.kitchens, Safe.kitchens_retry},
      need_commercial_postcode |-> {Safe.postcode, Safe.postcode_retry},
      need_commercial_hours |-> {Safe.commercial_hours, Safe.commercial_hours_retry},
      need_commercial_frequency |-> {Safe.frequency, Safe.frequency_retry},
      ask_extras_commercial_optional |->
          {Safe.extras, Safe.which_extra_commercial, Safe.is_that_correct, Safe.change},
      post_quote_booking_decision |-> {Safe.have_estimate, Safe.book_that_in},
      offer_followup |-> {Safe.send_estimate},
      need_booking_name |-> {Safe.full_name, Safe.booking_schema_fail, Safe.fix_feed},
      need_booking_phone |-> {Safe.phone},
      need_booking_email |-> {Safe.email},
      need_booking_address |-> {Safe.address},
      need_booking_date |-> {Safe.date, Safe.booking_fail},
      need_booking_time |-> {Safe.time} ]

\* C28: an empty utterance is recovered by re-asking the question of the
\* session's current stage: the stage is unchanged and the prompt spoken is one of
\* that stage's own question sentences.
C28_EmptyUtteranceReasksStage ==
    [][(lastRequest' = "input" /\ Said[utterance'] = "")
         => /\ state'.stage = state.stage
            /\ state.stage \in DOMAIN StageQuestions
            /\ \E q \in StageQuestions[state.stage] : spoken' = <<q>>]_vars

\* C29: once a pricing submission has succeeded the draft state.data is frozen:
\* no later utterance of the call changes any of its fields.
C29_DraftFrozenAfterQuote ==
    [][(lastRequest' = "input" /\ state.quoteResult # NoQuote)
         => state'.data = state.data]_vars

\* the items quoteCriticalMissing names, with the stages whose branch of the
\* handler writes each of them to the draft
CollectingStages ==
    [ m \in {"service category", "domestic service type", "domestic property type", "postcode",
             "bedrooms", "bathrooms", "job type", "hours per visit", "visit frequency",
             "toilets", "commercial service type", "commercial property type", "kitchens",
             "hours expected"} |->
        CASE m = "service category" -> {"need_category"}
          [] m = "domestic service type" -> {"need_domestic_service_type"}
          [] m = "domestic property type" -> {"need_domestic_property_type"}
          [] m = "postcode" -> {"need_domestic_postcode", "need_commercial_postcode"}
          [] m = "bedrooms" -> {"need_domestic_bedrooms"}
          [] m = "bathrooms" -> {"need_domestic_bathrooms"}
          [] m = "job type" -> {"need_domestic_job_type", "need_commercial_job_type"}
          [] m = "hours per visit" -> {"need_domestic_hours"}
          [] m = "visit frequency" -> {"need_domestic_frequency", "need_commercial_frequency"}
          [] m = "toilets" -> {"need_domestic_toilets", "need_commercial_toilets"}
          [] m = "commercial service type" -> {"need_commercial_service_type"}
          [] m = "commercial property type" -> {"need_commercial_property_type"}
          [] m = "kitchens" -> {"need_commercial_kitchens"}
          [] OTHER -> {"need_commercial_hours"} ]

\* the sentence of the completeness gate for each item
StillNeed ==
    [m \in DOMAIN CollectingStages |-> ensureGbpSpeech("I still need your " \o m \o ".")]

\* C30: when the completeness gate blocks a submission it re-prompts for exactly
\* the first missing item and the session is then in the stage that collects that
\* item.
C30_GateReturnsToCollectingStage ==
    [][\A m \in DOMAIN CollectingStages :
          (lastRequest' = "input" /\ spoken'[Len(spoken')] = StillNeed[m])
             => /\ m = quoteCriticalMissing(state'.data)
                /\ state'.stage \in CollectingStages[m]]_vars

\* ------------------------------------------------------------------------
\* Properties of the part_000 handler with several calls
\* ------------------------------------------------------------------------

\* C31: calls with different call identifiers are independent: for any
\* interleaving of the requests of two calls, each call's session, suspended
\* handlers and responses are the same as when its requests are processed alone.
C31_CallsIndependent ==
    \A c \in CallSids :
        /\ world.sessions[c] = alone[c].sessions[c]
        /\ world.spoken[c] = alone[c].spoken[c]
        /\ inFlightOf(world.inFlight, c) = alone[c].inFlight

\* two calls in progress at once, one domestic and one commercial, each with a
\* handler waiting for its price
C31_Witness ==
    /\ world.sessions["CA1"] # NoSession /\ world.sessions["CA2"] # NoSession
    /\ world.sessions["CA1"].data.service_category = "domestic"
    /\ world.sessions["CA2"].data.service_category = "commercial"
    /\ Len(inFlightOf(world.inFlight, "CA1")) = 1
    /\ Len(inFlightOf(world.inFlight, "CA2")) = 1

\* C40: at most one pricing submission per call is in flight at any time: while
\* a handler of a call is suspended awaiting callMakeGetQuote, no other handler of
\* that call starts another pricing submission.
C40_OneSubmissionInFlight ==
    \A c \in CallSids : Len(inFlightOf(world.inFlight, c)) <= 1

\* ------------------------------------------------------------------------
\* Properties of the part_000 handler: recovery, conditional questions
\* ------------------------------------------------------------------------

\* C32: after a pricing transport failure the handler asks for the postcode
\* again and the session is in a postcode stage, so that the caller's next
\* utterance is processed by need_domestic_postcode or need_commercial_postcode.
C32_PriceFailureReturnsToPostcode ==
    (lastRequest = "input" /\ quoteSent # NoCall /\ ~quoteAnswer.ok)
        => /\ spoken[Len(spoken)] = Safe.price_fail
           /\ state.stage \in PostcodeStages

\* C33: the visit-frequency question is asked, and a frequency is required by
\* the completeness gate, only when job_type is regular.
C33_FrequencyOnlyForRegular ==
    /\ (state.stage \in {"need_domestic_frequency", "need_commercial_frequency"})
          => state.data.job_type = "regular"
    /\ (quoteCriticalMissing(state.data) = "visit frequency")
          => state.data.job_type = "regular"

\* C34: the hours question is never asked for a domestic flat-fee service: in
\* every state with stage need_domestic_hours, domestic_service_type is
\* 'Regular Cleaning'.
C34_HoursOnlyForRegularCleaning ==
    (state.stage = "need_domestic_hours") => state.data.domestic_service_type = "Regular Cleaning"

\* the tokens that mark a property-type utterance as likely misheard
HighRiskTokens ==
    {"semi", "semmy", "terrace", "mid-terrace", "end terrace", "maisonette", "upstairs flat",
     "ground floor flat", "detached-ish", "flat-ish", "studio-type"}

\* the utterances of the model that contain one of them
HighRiskUtterances == {u \in Utterances : some(HighRiskTokens, lower(Said[u]))}

\* C35: every domestic property-type utterance containing a high-risk token is
\* flagged and forces a confirmation turn: the stage after such an utterance is
\* confirm_domestic_property_type, never directly need_domestic_postcode.
C35_HighRiskTokenIsConfirmed ==
    [][(lastRequest' = "input" /\ state.stage = "need_domestic_property_type"
            /\ utterance' \in HighRiskUtterances)
         => state'.stage = "confirm_domestic_property_type"]_vars

\* C36: at the booking offer after a quote an utterance that is neither an
\* acceptance nor a decline leaves the stage unchanged and re-asks the booking
\* question.
C36_UnclearReplyReasksBooking ==
    [][(lastRequest' = "input" /\ state.stage = "post_quote_booking_decision"
            /\ Said[utterance'] # "" /\ ~Heard[utterance'].dollar /\ ~Heard[utterance'].clarify
            /\ ~Heard[utterance'].affirmative /\ ~Heard[utterance'].negative)
         => /\ state'.stage = "post_quote_booking_decision"
            /\ spoken'[Len(spoken')] \in StageQuestions.post_quote_booking_decision]_vars

\* C37: after any sequence of requests to the second server at most one of the
\* pairs (domestic_service_type, domestic_property_type) and
\* (commercial_service_type, commercial_property_type) holds a value.
C37_OneCategoryPairFilled ==
    ~ /\ (second.data.domestic_service_type # "" \/ second.data.domestic_property_type # "")
      /\ (second.data.commercial_service_type # "" \/ second.data.commercial_property_type # "")

\* C38: in stage confirm_details_before_quote the second server submits for a
\* price only in a turn whose utterance is an affirmative answer: no utterance
\* that parseYesNo does not read as yes produces the turn that submits.
C38_PriceOnlyAfterYes ==
    [][\A raw \in SecondSays(second.stage) : \A q \in SecondQuoteAnswers :
          ( /\ second.stage = "confirm_details_before_quote"
            /\ secondRequest' = "input"
            /\ secondQuoteSent' # NoCall
            /\ second' = secondCallInput(second, SecondSaid[raw], SecondHeard[raw], q, FALSE).st
            /\ secondQuoteSent' = secondCallInput(second, SecondSaid[raw], SecondHeard[raw], q, FALSE).quote )
          => SecondHeard[raw].yesNo = "yes"]_vars

\* C39: the summary is read back for confirmation only when the draft is
\* complete for pricing: whenever confirmSummaryPending is set,
\* quoteCriticalMissing reports nothing missing.
C39_ReadBackOnlyWhenComplete ==
    state.confirmSummaryPending => quoteCriticalMissing(state.data) = ""

=========================================================================
